---- MODULE Spec2Model ----
(***************************************************************************)
(* CONTINUITY: session tools (save_session, load_session, checkpoint,      *)
(* recover_crash) over the SQLite store (checkpoints, sessions) and the    *)
(* sessions directory of JSON snapshots.                                   *)
(***************************************************************************)
EXTENDS Integers, Sequences, FiniteSets, TLC

VARIABLES
  config,            \* the loaded ContinuityConfig (auto_escalation_threshold)
  clock,             \* the instant new Date() reads in the next call
  nextId,            \* the next value randomUUID() returns
  sessions,          \* table sessions, in insertion order
  checkpoints,       \* table checkpoints, in insertion order
  sessionsDir,       \* does config.sessions_dir exist
  files,             \* the *.json files of config.sessions_dir: filename -> SessionState
  currentSessionId,  \* closure variable currentSessionId (NoId is null)
  accumulators,      \* closure Map accumulators: workspace -> AccumulatorState
  result,            \* the last handler call: its input and what it returned
  history,           \* the handler calls so far, each as result recorded it
  log,               \* decisions.jsonl: the decisions, one per line
  pending            \* the requests received and not yet handled: request -> number

vars == <<config, clock, nextId, sessions, checkpoints, sessionsDir, files,
          currentSessionId, accumulators, result, history, log, pending>>

-----------------------------------------------------------------------------
(* Bounds of the model.                                                    *)

MaxThreshold == 2      \* Spec: configured auto_escalation_threshold is 1..MaxThreshold
MaxCalls == 3          \* Spec: the handlers are called at most this many times

(* Optional values: a missing property / null / undefined is None.         *)
None == <<>>
Some(x) == <<x>>
IsSome(o) == o # <<>>
Get(o) == o[1]

\* the value of a required string field that the request does not carry;
\* a template string renders it as the text undefined
Undefined == "undefined"

NoId == 0              \* currentSessionId = null

Workspaces == {"a", "ab"}

-----------------------------------------------------------------------------
(* Strings that are searched or sorted are sequences of character codes.   *)

Chars(s) ==
  CASE s = "a" -> <<97>>
    [] s = "ab" -> <<97, 98>>
    [] s = "_" -> <<95>>
    [] s = "-" -> <<45>>
    [] s = "_auto" -> <<95, 97, 117, 116, 111>>
    [] s = ".json" -> <<46, 106, 115, 111, 110>>
    [] s = ".md" -> <<46, 109, 100>>
    [] s = "2026-11-" -> <<50, 48, 50, 54, 45, 49, 49, 45>>
    [] s = "Use X" -> <<85, 115, 101, 32, 88>>
    [] s = "now" -> <<110, 111, 119>>
    [] s = "use x now ok" -> <<117, 115, 101, 32, 120, 32, 110, 111, 119, 32, 111, 107>>
    [] s = "r" -> <<114>>
    [] s = "Y" -> <<89>>
    [] s = "y" -> <<121>>
    [] s = "X" -> <<88>>
    [] s = "" -> <<>>
    [] s = "a " -> <<97, 32>>
    [] s = "bbb" -> <<98, 98, 98>>
    [] s = "#h" -> <<35, 104>>
    [] s = "[OK]  c" -> <<91, 79, 75, 93, 32, 32, 99>>
    [] s = "[WIP] c" -> <<91, 87, 73, 80, 93, 32, 99>>
    [] s = "[DONE] c" -> <<91, 68, 79, 78, 69, 93, 32, 99>>
    [] s = "next" -> <<110, 101, 120, 116>>
    [] s = "b" -> <<98>>
    [] s = "c" -> <<99>>
    [] s = "#" -> <<35>>
    [] s = "decision" -> <<100, 101, 99, 105, 115, 105, 111, 110>>
    [] s = "ratified" -> <<114, 97, 116, 105, 102, 105, 101, 100>>
    [] s = "todo" -> <<116, 111, 100, 111>>
    [] s = "[WARN]" -> <<91, 87, 65, 82, 78, 93>>
    [] s = "[FAIL]" -> <<91, 70, 65, 73, 76, 93>>
    [] s = "[OK]" -> <<91, 79, 75, 93>>
    [] s = "[DONE]" -> <<91, 68, 79, 78, 69, 93>>
    [] s = "[WIP]" -> <<91, 87, 73, 80, 93>>
    [] s = "\n" -> <<10>>
    [] s = "impl" -> <<105, 109, 112, 108>>
    [] s = "n1" -> <<110, 49>>
    [] s = "write the tests" -> <<119, 114, 105, 116, 101, 32, 116, 104, 101, 32, 116, 101, 115, 116, 115>>
    [] s = "undefined" -> <<117, 110, 100, 101, 102, 105, 110, 101, 100>>
    [] s = " " -> <<32>>
    [] s = "T" -> <<84>>
    [] s = ":" -> <<58>>
    [] s = ".000Z" -> <<46, 48, 48, 48, 90>>
    [] s = "2026-11-01T23:59:30" -> <<50, 48, 50, 54, 45, 49, 49, 45, 48, 49, 84, 50, 51, 58, 53, 57, 58, 51, 48>>

Pad2(n) == <<48 + (n \div 10), 48 + (n % 10)>>

EpochMinute == 23 * 60 + 59     \* instant 0 is 2026-11-01T23:59

TicksPerMinute == 2   \* two successive calls may fall in the same minute

AbsMinute(t) == EpochMinute + (t \div TicksPerMinute)

\* now.slice(0, 10) of new Date().toISOString(), for the minute m
datePrefix(m) == Chars("2026-11-") \o Pad2(1 + (m \div 1440))

\* now.slice(11, 16).replace(':', ''), for the minute m
timePrefix(m) == Pad2((m % 1440) \div 60) \o Pad2(m % 60)

\* `${datePrefix}_${workspace}_${timePrefix}`: kept as its three parts
saveFilename(t, ws) == [minute |-> AbsMinute(t), workspace |-> ws, auto |-> FALSE]

\* `${datePrefix}_${acc.workspace}_${timePrefix}_auto`
autoFilename(t, ws) == [minute |-> AbsMinute(t), workspace |-> ws, auto |-> TRUE]

\* the characters of a filename
filenameText(fn) ==
  datePrefix(fn.minute) \o Chars("_") \o Chars(fn.workspace) \o Chars("_")
    \o timePrefix(fn.minute) \o (IF fn.auto THEN Chars("_auto") ELSE <<>>)

\* `${filename}.json`, as readdirSync lists it
jsonName(fn) == filenameText(fn) \o Chars(".json")

\* join(config.sessions_dir, `${filename}.md`) and `${filename}.json`
mdPath(fn) == [filename |-> fn, ext |-> ".md"]
jsonPath(fn) == [filename |-> fn, ext |-> ".json"]

\* randomUUID() as text: 8-4-4-4-12 hexadecimal digits
uuidText(n) ==
  <<48,48,48,48,48,48,48,48,45,48,48,48,48,45,52,48,48,48,45,56,48,48,48,45,
    48,48,48,48,48,48,48,48,48,48>> \o Pad2(n)

\* String.prototype.includes
includes(hay, needle) ==
  \E i \in 0..(Len(hay) - Len(needle)) :
    SubSeq(hay, i + 1, i + Len(needle)) = needle

\* a < b in the order of Array.prototype.sort() (by code unit)
RECURSIVE lexLess(_, _)
lexLess(a, b) ==
  IF b = <<>> THEN FALSE
  ELSE IF a = <<>> THEN TRUE
  ELSE IF Head(a) # Head(b) THEN Head(a) < Head(b)
  ELSE lexLess(Tail(a), Tail(b))

-----------------------------------------------------------------------------
(* storage/database: the two tables, as pure operations on their rows.     *)

\* JavaScript truthiness of an optional string
Truthy(o) == IsSome(o) /\ Get(o) # ""

\* INSERT OR REPLACE INTO checkpoints: a row with the same id is replaced
saveCheckpoint(tbl, cp) ==
  Append(SelectSeq(tbl, LAMBDA r : r.id # cp.id), cp)

\* the rows of every workspace
rowsOfAny(tbl, workspace) == DOMAIN tbl

\* the positions of the rows of a workspace
rowsOf(tbl, workspace) == {i \in DOMAIN tbl : tbl[i].workspace = workspace}

\* ORDER BY timestamp DESC LIMIT 1: the positions the query may return
\* (rows with equal timestamps come in an order SQL leaves open)
getLatestCheckpoint(tbl, workspace) ==
  {i \in rowsOf(tbl, workspace) :
     \A j \in rowsOf(tbl, workspace) : tbl[j].timestamp <= tbl[i].timestamp}

\* SELECT id ... ORDER BY timestamp DESC LIMIT keepCount: the sets of
\* positions the subquery may return
keptRows(tbl, workspace, keepCount) ==
  LET rows == rowsOf(tbl, workspace)
      newer(i) == {j \in rows : tbl[j].timestamp > tbl[i].timestamp}
      \* rows that are within the limit whatever the order of equal timestamps
      sure == {i \in rows :
                 Cardinality({j \in rows : tbl[j].timestamp >= tbl[i].timestamp})
                   <= keepCount}
      \* rows that are within the limit for some order of equal timestamps
      maybe == {i \in rows \ sure : Cardinality(newer(i)) < keepCount}
  IN  {sure \cup T : T \in {U \in SUBSET maybe :
                              Cardinality(U) = IF Cardinality(rows) <= keepCount
                                               THEN 0
                                               ELSE keepCount - Cardinality(sure)}}

\* a prune that deletes nothing
pruneNothing(tbl, workspace, kept) == tbl

\* DELETE FROM checkpoints WHERE workspace = ? AND id NOT IN (kept)
pruneCheckpoints(tbl, workspace, kept) ==
  LET RECURSIVE keep(_)
      keep(i) ==
        IF i > Len(tbl) THEN <<>>
        ELSE IF tbl[i].workspace = workspace /\ i \notin kept
             THEN keep(i + 1)
             ELSE <<tbl[i]>> \o keep(i + 1)
  IN  keep(1)

\* INSERT INTO sessions (id, workspace, start_time, operations_count,
\* ended_cleanly, handoff_path): end_time is not among the columns
createSession(tbl, session) ==
  Append(tbl, [id |-> session.id,
               workspace |-> session.workspace,
               start_time |-> session.start_time,
               end_time |-> None,
               operations_count |-> session.operations_count,
               ended_cleanly |-> session.ended_cleanly,
               handoff_path |-> session.handoff_path])

\* an update that writes no end time
endSessionWithoutTime(tbl, id, endTime, operationsCount, endedCleanly, handoffPath) ==
  [i \in DOMAIN tbl |->
     IF tbl[i].id = id
     THEN [tbl[i] EXCEPT !.operations_count = operationsCount,
                         !.ended_cleanly = endedCleanly,
                         !.handoff_path = handoffPath]
     ELSE tbl[i]]

\* UPDATE sessions SET end_time, operations_count, ended_cleanly,
\* handoff_path WHERE id = ?
endSession(tbl, id, endTime, operationsCount, endedCleanly, handoffPath) ==
  [i \in DOMAIN tbl |->
     IF tbl[i].id = id
     THEN [tbl[i] EXCEPT !.end_time = Some(endTime),
                         !.operations_count = operationsCount,
                         !.ended_cleanly = endedCleanly,
                         !.handoff_path = handoffPath]
     ELSE tbl[i]]

\* UPDATE sessions SET operations_count = operations_count + 1 WHERE id = ?
incrementOperations(tbl, sessionId) ==
  [i \in DOMAIN tbl |->
     IF tbl[i].id = sessionId
     THEN [tbl[i] EXCEPT !.operations_count = @ + 1]
     ELSE tbl[i]]

\* SELECT * FROM sessions WHERE ended_cleanly = 0 [AND workspace = ?]:
\* the positions of the rows selected
getUncleanSessions(tbl, workspace) ==
  {i \in DOMAIN tbl :
     /\ ~tbl[i].ended_cleanly
     /\ (Truthy(workspace) => tbl[i].workspace = Get(workspace))}

\* ORDER BY start_time DESC: the positions that may come first
firstByStartTime(tbl, rows) ==
  {i \in rows : \A j \in rows : tbl[j].start_time <= tbl[i].start_time}

-----------------------------------------------------------------------------
(* tools/session-tools: createSessionHandlers                              *)

KeepCount == 50        \* db.pruneCheckpoints(workspace, 50)
DefaultThreshold == 15 \* DEFAULTS.auto_escalation_threshold

AutoEscalatedWarning == "[AUTO-ESCALATED] Session save triggered by checkpoint threshold"

\* accumulators.has(workspace) or a new AccumulatorState
getOrCreateAccumulator(accs, workspace) ==
  IF workspace \in DOMAIN accs
  THEN accs[workspace]
  ELSE [workspace |-> workspace,
        phase |-> "unknown",
        completed_operations |-> <<>>,
        active_files |-> <<>>,
        decisions_made |-> <<>>,
        next_steps |-> <<>>,
        warnings |-> <<>>,
        checkpoint_count |-> 0,
        last_escalation |-> None]

\* a write of the accumulator that is lost when the workspace has one
setAccumulatorOnce(accs, workspace, acc) ==
  IF workspace \in DOMAIN accs THEN accs
  ELSE [w \in DOMAIN accs \cup {workspace} |-> IF w = workspace THEN acc ELSE accs[w]]

\* accumulators.set(workspace, acc)
setAccumulator(accs, workspace, acc) ==
  [w \in DOMAIN accs \cup {workspace} |-> IF w = workspace THEN acc ELSE accs[w]]

\* a delete that leaves the accumulator where it is
keepAccumulator(accs, workspace) == accs

\* accumulators.delete(workspace)
deleteAccumulator(accs, workspace) ==
  [w \in DOMAIN accs \ {workspace} |-> accs[w]]

\* writeFileSync(jsonPath, JSON.stringify(state)): creates or overwrites
writeFile(dir, filename, state) ==
  [f \in DOMAIN dir \cup {filename} |-> IF f = filename THEN state ELSE dir[f]]

\* acc.completed_operations.map(op => ({timestamp: now, ...})) and
\* ops.map(o => ({timestamp: now, description, result: o.result || 'success'}));
\* an operation without a result carries ""  (as falsy as undefined)
stampOperations(ops, now) ==
  [i \in DOMAIN ops |->
     [timestamp |-> now,
      description |-> ops[i].description,
      result |-> IF ops[i].result = "" THEN "success" ELSE ops[i].result]]

\* an append that keeps a decision already in the list
appendAll(list, newDecisions) == list \o newDecisions

\* for (const d of newDecisions) if (!decisions_made.includes(d)) push(d)
RECURSIVE appendDeduplicated(_, _)
appendDeduplicated(list, newDecisions) ==
  IF newDecisions = <<>> THEN list
  ELSE appendDeduplicated(
         IF \E i \in DOMAIN list : list[i] = Head(newDecisions)
         THEN list
         ELSE Append(list, Head(newDecisions)),
         Tail(newDecisions))

\* the SessionState escalateToFullSave builds from the accumulator
escalatedState(acc, now, id) ==
  [id |-> id,
   workspace |-> acc.workspace,
   timestamp |-> now,
   phase |-> acc.phase,
   completed_operations |-> stampOperations(acc.completed_operations, now),
   active_files |-> acc.active_files,
   decisions_made |-> acc.decisions_made,
   next_steps |-> acc.next_steps,
   git_state |-> [branch |-> "unknown", uncommitted |-> FALSE],
   warnings |-> Append(acc.warnings, AutoEscalatedWarning),
   metadata |-> [auto_escalated |-> TRUE, checkpoint_count |-> acc.checkpoint_count]]

\* an escalation that leaves the counter as it is
escalatedAccumulatorKeepsCount(acc, now) ==
  [acc EXCEPT !.last_escalation = Some(now)]

\* an escalation that also empties the list of completed operations
escalatedAccumulatorCleared(acc, now) ==
  [acc EXCEPT !.last_escalation = Some(now), !.checkpoint_count = 0,
              !.completed_operations = <<>>]

\* an escalation that also puts its warning into the accumulator
escalatedAccumulatorWarned(acc, now) ==
  [acc EXCEPT !.last_escalation = Some(now), !.checkpoint_count = 0,
              !.warnings = Append(@, AutoEscalatedWarning)]

\* what escalateToFullSave leaves in the accumulator
escalatedAccumulator(acc, now) ==
  [acc EXCEPT !.last_escalation = Some(now), !.checkpoint_count = 0]

\* a snapshot that takes decisions and warnings from the accumulator the
\* process holds for the workspace (before the process started there is none)
savedStateAccumulated(input, now, sessionId) ==
  LET held == now >= 0 /\ input.workspace \in DOMAIN accumulators
  IN  [id |-> sessionId,
       workspace |-> input.workspace,
       timestamp |-> now,
       phase |-> input.phase,
       completed_operations |->
         stampOperations(IF IsSome(input.completed_operations)
                         THEN Get(input.completed_operations) ELSE <<>>, now),
       active_files |-> IF IsSome(input.active_files) THEN Get(input.active_files)
                        ELSE <<>>,
       decisions_made |-> IF held THEN accumulators[input.workspace].decisions_made
                          ELSE <<>>,
       next_steps |-> IF IsSome(input.next_steps) THEN Get(input.next_steps) ELSE <<>>,
       git_state |-> [branch |-> IF Truthy(input.git_branch) THEN Get(input.git_branch)
                                 ELSE "unknown",
                      uncommitted |-> FALSE],
       warnings |-> IF held THEN accumulators[input.workspace].warnings ELSE <<>>,
       metadata |-> <<>>]

\* the SessionState continuity_save_session builds from its input
savedState(input, now, sessionId) ==
  [id |-> sessionId,
   workspace |-> input.workspace,
   timestamp |-> now,
   phase |-> input.phase,
   completed_operations |->
     stampOperations(IF IsSome(input.completed_operations)
                     THEN Get(input.completed_operations) ELSE <<>>, now),
   active_files |-> IF IsSome(input.active_files) THEN Get(input.active_files) ELSE <<>>,
   decisions_made |-> <<>>,
   next_steps |-> IF IsSome(input.next_steps) THEN Get(input.next_steps) ELSE <<>>,
   git_state |-> [branch |-> IF Truthy(input.git_branch) THEN Get(input.git_branch)
                             ELSE "unknown",
                  uncommitted |-> FALSE],
   warnings |-> IF IsSome(input.warnings) THEN Get(input.warnings) ELSE <<>>,
   metadata |-> <<>>]

\* a handler that throws: the server answers { error: message }
thrown(op, input) == [op |-> op, input |-> input, error |-> TRUE]

continuity_save_session(input, now) ==
  LET workspace == input.workspace
      tracked == currentSessionId # NoId
      sessionId == IF tracked THEN currentSessionId ELSE nextId
      checkpointId == IF tracked THEN nextId ELSE nextId + 1
      ops == IF IsSome(input.completed_operations)
             THEN Get(input.completed_operations) ELSE <<>>
      state == savedState(input, now, sessionId)
      filename == saveFilename(now, workspace)
  IN  IF ~sessionsDir
      THEN \* writeFileSync throws ENOENT before anything is changed
           /\ result' = thrown("save", input)
           /\ nextId' = IF tracked THEN nextId ELSE nextId + 1
           /\ UNCHANGED <<config, sessions, checkpoints, sessionsDir, files,
                          currentSessionId, accumulators>>
      ELSE IF workspace = Undefined
      THEN \* both files are written; then the first statement that binds
           \* the workspace to a NOT NULL column throws: createSession when
           \* no session is tracked, else saveCheckpoint after endSession
           /\ files' = writeFile(files, filename, state)
           /\ sessions' =
                IF tracked
                THEN endSession(sessions, currentSessionId, now, Len(ops), TRUE,
                               Some(mdPath(filename)))
                ELSE sessions
           /\ nextId' = nextId + 1
           /\ result' = thrown("save", input)
           /\ UNCHANGED <<config, checkpoints, sessionsDir, currentSessionId,
                          accumulators>>
      ELSE /\ files' = writeFile(files, filename, state)
           /\ sessions' =
                IF tracked
                THEN endSession(sessions, currentSessionId, now, Len(ops), TRUE,
                               Some(mdPath(filename)))
                ELSE createSession(sessions,
                       [id |-> sessionId, workspace |-> workspace, start_time |-> now,
                        end_time |-> Some(now), operations_count |-> Len(ops),
                        ended_cleanly |-> TRUE, handoff_path |-> Some(mdPath(filename))])
           /\ checkpoints' =
                saveCheckpoint(checkpoints,
                  [id |-> checkpointId, workspace |-> workspace, timestamp |-> now,
                   operation |-> "session_end", state |-> state, trigger |-> "manual"])
           /\ currentSessionId' = NoId
           /\ accumulators' = deleteAccumulator(accumulators, workspace)
           /\ nextId' = checkpointId + 1
           /\ result' = [op |-> "save", input |-> input, error |-> FALSE,
                         success |-> TRUE, session_id |-> sessionId,
                         handoff_path |-> mdPath(filename),
                         json_path |-> jsonPath(filename),
                         operations_saved |-> Len(ops)]
           /\ UNCHANGED <<config, sessionsDir>>

\* the name that sorts last, whatever the input asks for
targetFileAny(dir, input) ==
  IF DOMAIN dir = {} THEN None
  ELSE Some(CHOOSE f \in DOMAIN dir :
              \A g \in DOMAIN dir : g = f \/ lexLess(jsonName(g), jsonName(f)))

\* readdirSync(...).filter(.json).sort().reverse() and the find over it:
\* the name selected, None when there is none
targetFile(dir, input) ==
  LET matching ==
        IF IsSome(input.session_id)
        THEN {f \in DOMAIN dir : includes(jsonName(f), uuidText(Get(input.session_id)))}
        ELSE IF Truthy(input.workspace)
        THEN {f \in DOMAIN dir : includes(jsonName(f), Chars(Get(input.workspace)))}
        ELSE DOMAIN dir
  IN  IF matching = {} THEN None
      ELSE Some(CHOOSE f \in matching :
                  \A g \in matching : g = f \/ lexLess(jsonName(g), jsonName(f)))

continuity_load_session(input, now) ==
  LET target == targetFile(files, input)
  IN  IF ~sessionsDir \/ target = None
      THEN /\ result' = [op |-> "load", input |-> input, error |-> FALSE,
                         success |-> FALSE]
           /\ UNCHANGED <<config, nextId, sessions, checkpoints, sessionsDir,
                          files, currentSessionId, accumulators>>
      ELSE LET state == files[Get(target)]
           IN  /\ currentSessionId' = nextId
               /\ sessions' = createSession(sessions,
                     [id |-> nextId, workspace |-> state.workspace,
                      start_time |-> now, operations_count |-> 0,
                      ended_cleanly |-> FALSE, handoff_path |-> None])
               /\ nextId' = nextId + 1
               /\ result' = [op |-> "load", input |-> input, error |-> FALSE,
                             success |-> TRUE, session_id |-> state.id,
                             workspace |-> state.workspace, phase |-> state.phase,
                             next_steps |-> state.next_steps,
                             active_files |-> state.active_files,
                             warnings |-> state.warnings,
                             target_file |-> Get(target),
                             current_session_id |-> nextId]
               /\ UNCHANGED <<config, checkpoints, sessionsDir, files,
                              accumulators>>

\* the accumulator after the merge of a checkpoint input
mergedAccumulator(acc, input) ==
  [acc EXCEPT
     !.checkpoint_count = @ + 1,
     !.phase = IF Truthy(input.phase) THEN Get(input.phase) ELSE @,
     !.active_files = IF IsSome(input.active_files) THEN Get(input.active_files) ELSE @,
     !.next_steps = IF IsSome(input.next_steps) THEN Get(input.next_steps) ELSE @,
     !.warnings = IF IsSome(input.warnings) THEN @ \o Get(input.warnings) ELSE @,
     !.decisions_made =
        appendDeduplicated(@, IF IsSome(input.decisions) THEN Get(input.decisions)
                              ELSE <<>>),
     !.completed_operations =
        Append(@, [description |-> input.operation, result |-> "success"])]

\* a payload made of the last operation only
lastOperationState(acc, now) ==
  [phase |-> acc.phase,
   active_files |-> acc.active_files,
   next_steps |-> acc.next_steps,
   decisions_made |-> acc.decisions_made,
   warnings |-> acc.warnings,
   completed_operations |->
     stampOperations(<<acc.completed_operations[Len(acc.completed_operations)]>>, now)]

\* cp.state: the enriched checkpoint state
checkpointState(acc, now) ==
  [phase |-> acc.phase,
   active_files |-> acc.active_files,
   next_steps |-> acc.next_steps,
   decisions_made |-> acc.decisions_made,
   warnings |-> acc.warnings,
   completed_operations |-> stampOperations(acc.completed_operations, now)]

\* acc.checkpoint_count > config.auto_escalation_threshold
shouldEscalateLate(acc, cfg) == acc.checkpoint_count > cfg.auto_escalation_threshold

\* acc.checkpoint_count >= config.auto_escalation_threshold
shouldEscalate(acc, cfg) == acc.checkpoint_count >= cfg.auto_escalation_threshold

continuity_checkpoint(input, now) ==
  LET workspace == input.workspace
      acc == mergedAccumulator(getOrCreateAccumulator(accumulators, workspace), input)
      cp == [id |-> nextId, workspace |-> workspace, timestamp |-> now,
             operation |-> input.operation, state |-> checkpointState(acc, now),
             trigger |-> IF Truthy(input.trigger) THEN Get(input.trigger) ELSE "manual"]
      saved == saveCheckpoint(checkpoints, cp)
      counted == IF currentSessionId # NoId
                 THEN incrementOperations(sessions, currentSessionId)
                 ELSE sessions
      escalate == shouldEscalate(acc, config)
      escalated == escalatedAccumulator(acc, now)
      tracked == currentSessionId # NoId
      filename == autoFilename(now, workspace)
      handoff_path == mdPath(filename)
  IN  IF workspace = Undefined \/ input.operation = Undefined
      THEN \* the accumulator is merged, then db.saveCheckpoint throws:
           \* the workspace and operation columns are NOT NULL
           /\ accumulators' = setAccumulator(accumulators, workspace, acc)
           /\ nextId' = nextId + 1
           /\ result' = thrown("checkpoint", input)
           /\ UNCHANGED <<config, sessions, checkpoints, sessionsDir, files,
                          currentSessionId>>
      ELSE
      \E kept \in keptRows(saved, workspace, KeepCount) :
        /\ checkpoints' = pruneCheckpoints(saved, workspace, kept)
        /\ IF ~escalate
           THEN /\ accumulators' = setAccumulator(accumulators, workspace, acc)
                /\ sessions' = counted
                /\ nextId' = nextId + 1
                /\ result' = [op |-> "checkpoint", input |-> input, error |-> FALSE,
                              success |-> TRUE, checkpoint_id |-> cp.id,
                              workspace |-> workspace, operation |-> cp.operation,
                              timestamp |-> now,
                              checkpoint_number |-> acc.checkpoint_count,
                              escalation_threshold |-> config.auto_escalation_threshold,
                              auto_escalated |-> FALSE, handoff_path |-> None]
                /\ UNCHANGED <<files, currentSessionId>>
           ELSE IF ~sessionsDir
           THEN \* escalateToFullSave throws at its first writeFileSync
                /\ accumulators' = setAccumulator(accumulators, workspace, acc)
                /\ sessions' = counted
                /\ nextId' = IF tracked THEN nextId + 1 ELSE nextId + 2
                /\ result' = thrown("checkpoint", input)
                /\ UNCHANGED <<files, currentSessionId>>
           ELSE /\ files' = writeFile(files, filename,
                      escalatedState(acc, now, IF tracked THEN currentSessionId
                                               ELSE nextId + 1))
                /\ accumulators' = setAccumulator(accumulators, workspace, escalated)
                /\ sessions' =
                      IF tracked
                      THEN createSession(
                             endSession(counted, currentSessionId, now,
                                        Len(acc.completed_operations), TRUE,
                                        Some(handoff_path)),
                             [id |-> nextId + 1, workspace |-> workspace,
                              start_time |-> now, operations_count |-> 0,
                              ended_cleanly |-> FALSE, handoff_path |-> None])
                      ELSE counted
                /\ currentSessionId' = IF tracked THEN nextId + 1 ELSE currentSessionId
                /\ nextId' = nextId + 2
                /\ result' = [op |-> "checkpoint", input |-> input, error |-> FALSE,
                              success |-> TRUE, checkpoint_id |-> cp.id,
                              workspace |-> workspace, operation |-> cp.operation,
                              timestamp |-> now,
                              checkpoint_number |-> escalated.checkpoint_count,
                              escalation_threshold |-> config.auto_escalation_threshold,
                              auto_escalated |-> TRUE,
                              handoff_path |-> Some(handoff_path)]
        /\ UNCHANGED <<config, sessionsDir>>

\* a crashed record closed as if it had ended cleanly
markRecovered(tbl, crashed, now) ==
  endSession(tbl, crashed.id, now, crashed.operations_count, TRUE, None)

\* db.endSession(crashed.id, now, crashed.operations_count, false)
markCrashed(tbl, crashed, now) ==
  endSession(tbl, crashed.id, now, crashed.operations_count, FALSE, None)

continuity_recover_crash(input, now) ==
  LET unclean == getUncleanSessions(sessions, input.workspace)
  IN  IF unclean = {}
      THEN /\ result' = [op |-> "recover", input |-> input, error |-> FALSE,
                         detected |-> FALSE, operations_lost |-> 0,
                         last_checkpoint |-> None, last_session |-> None]
           /\ UNCHANGED <<config, nextId, sessions, checkpoints, sessionsDir,
                          files, currentSessionId, accumulators>>
      ELSE \E c \in firstByStartTime(sessions, unclean) :
             LET crashed == sessions[c]
                 latest == getLatestCheckpoint(checkpoints, crashed.workspace)
             IN  \E lastCheckpoint \in IF latest = {} THEN {None}
                                       ELSE {Some(checkpoints[i]) : i \in latest} :
                   /\ result' = [op |-> "recover", input |-> input, error |-> FALSE,
                                 detected |-> TRUE,
                                 operations_lost |-> IF IsSome(lastCheckpoint) THEN 0
                                                     ELSE crashed.operations_count,
                                 last_checkpoint |-> lastCheckpoint,
                                 last_session |-> Some(crashed)]
                   /\ sessions' = markCrashed(sessions, crashed, now)
                   /\ UNCHANGED <<config, nextId, checkpoints, sessionsDir,
                                  files, currentSessionId, accumulators>>

-----------------------------------------------------------------------------
(* The calls a client makes.                                               *)

CheckpointFields ==
  { [operation |-> "op1", phase |-> Some("impl"), active_files |-> Some(<<"f1">>),
     next_steps |-> Some(<<"n1">>), decisions |-> Some(<<"d1">>),
     warnings |-> Some(<<"w1">>), trigger |-> None],
    [operation |-> "op2", phase |-> None, active_files |-> None,
     next_steps |-> None, decisions |-> Some(<<"d1", "d2">>),
     warnings |-> None, trigger |-> Some("auto")] }

CheckpointInputs ==
  { [workspace |-> w, operation |-> f.operation, phase |-> f.phase,
     active_files |-> f.active_files, next_steps |-> f.next_steps,
     decisions |-> f.decisions, warnings |-> f.warnings, trigger |-> f.trigger] :
    w \in Workspaces, f \in CheckpointFields }

SaveInputs ==
  { [workspace |-> w, phase |-> "testing",
     completed_operations |-> Some(<<[description |-> "built", result |-> ""]>>),
     active_files |-> None, next_steps |-> Some(<<"n2">>),
     git_branch |-> None, warnings |-> None] : w \in Workspaces }

\* session ids a client has seen: those of the snapshots written
KnownSessionIds == {files[f].id : f \in DOMAIN files}

LoadInputs ==
  { [workspace |-> w, session_id |-> None] :
    w \in {None} \cup {Some(x) : x \in Workspaces} }
  \cup { [workspace |-> None, session_id |-> Some(x)] : x \in KnownSessionIds }

RecoverInputs == { [workspace |-> w] : w \in {None} \cup {Some(x) : x \in Workspaces} }

\* the data directory of a first start
EmptyStore == [sessions |-> <<>>, checkpoints |-> <<>>, files |-> <<>>, nextId |-> 1]

\* the data directory an earlier process left behind: it saved workspace "a"
\* in full, two minutes before this process starts, and exited
PreviousStore ==
  LET input == CHOOSE i \in SaveInputs : i.workspace = "a"
      savedAt == 0 - 2 * TicksPerMinute
      state == savedState(input, savedAt, 1)
      filename == saveFilename(savedAt, "a")
  IN  [sessions |-> createSession(<<>>,
                      [id |-> 1, workspace |-> "a", start_time |-> savedAt,
                       end_time |-> Some(savedAt),
                       operations_count |-> Len(Get(input.completed_operations)),
                       ended_cleanly |-> TRUE,
                       handoff_path |-> Some(mdPath(filename))]),
       checkpoints |-> saveCheckpoint(<<>>,
                      [id |-> 2, workspace |-> "a", timestamp |-> savedAt,
                       operation |-> "session_end", state |-> state,
                       trigger |-> "manual"]),
       files |-> writeFile(<<>>, filename, state),
       nextId |-> 3]

\* the process has started: loadConfig has made the directories, the
\* handlers track no session and have no accumulator
Started(store, threshold) ==
  /\ config = [auto_escalation_threshold |-> threshold]
  /\ clock = 0
  /\ nextId = store.nextId
  /\ sessions = store.sessions
  /\ checkpoints = store.checkpoints
  /\ sessionsDir = TRUE
  /\ files = store.files
  /\ currentSessionId = NoId
  /\ accumulators = <<>>
  /\ result = [op |-> "none", error |-> FALSE]
  /\ history = <<>>
  /\ log = <<>>
  /\ pending = [i \in CheckpointInputs |-> 0]

Init ==
  \E store \in {EmptyStore, PreviousStore}, threshold \in 1..MaxThreshold :
    Started(store, threshold)

\* Calls are handled one after the other, each one instant after the one
\* before: the instant of a call is the number of calls before it.
Call(now) ==
  /\ clock < MaxCalls /\ now = clock /\ clock' = clock + 1
  /\ UNCHANGED <<log, pending>>

Returned == history' = Append(history, result')

SaveSession ==
  \E input \in SaveInputs, now \in {clock} :
    Call(now) /\ continuity_save_session(input, now) /\ Returned

LoadSession ==
  \E input \in LoadInputs, now \in {clock} :
    Call(now) /\ continuity_load_session(input, now) /\ Returned

Checkpoint ==
  \E input \in CheckpointInputs, now \in {clock} :
    Call(now) /\ continuity_checkpoint(input, now) /\ Returned

RecoverCrash ==
  \E input \in RecoverInputs, now \in {clock} :
    Call(now) /\ continuity_recover_crash(input, now) /\ Returned

Next == SaveSession \/ LoadSession \/ Checkpoint \/ RecoverCrash

Spec == Init /\ [][Next]_vars

-----------------------------------------------------------------------------
(* The same process when the sessions directory can go away under it.      *)

\* the directory is removed from outside, with the files in it
RemoveSessionsDir ==
  /\ sessionsDir
  /\ sessionsDir' = FALSE
  /\ files' = <<>>
  /\ UNCHANGED <<config, clock, nextId, sessions, checkpoints, currentSessionId,
                 accumulators, result, history, log, pending>>

NextEnv == Next \/ RemoveSessionsDir

SpecEnv == Init /\ [][NextEnv]_vars

-----------------------------------------------------------------------------
(* The default configuration (threshold 15) over a long run of checkpoints *)
(* of workspace "a": any call among the first EarlyCalls, then checkpoints *)
(* of "a", ended by at most one recover_crash.                             *)

MaxCallsDefault == 52  \* SpecDefault: the handlers are called at most this many times
EarlyCalls == 1        \* SpecDefault: the calls that may be any call

InitDefault == Started(EmptyStore, DefaultThreshold)

CallDefault(now) ==
  /\ clock < MaxCallsDefault /\ now = clock /\ clock' = clock + 1
  /\ UNCHANGED <<log, pending>>

LongRunInput ==
  [workspace |-> "a", operation |-> "op1", phase |-> Some("impl"),
   active_files |-> Some(<<"f1">>), next_steps |-> Some(<<"n1">>),
   decisions |-> Some(<<"d1">>), warnings |-> None, trigger |-> Some("auto")]

EarlyCall ==
  /\ clock < EarlyCalls
  /\ \E now \in {clock} :
       /\ CallDefault(now)
       /\ \/ \E input \in SaveInputs : continuity_save_session(input, now)
          \/ \E input \in LoadInputs : continuity_load_session(input, now)
          \/ \E input \in CheckpointInputs : continuity_checkpoint(input, now)
          \/ \E input \in RecoverInputs : continuity_recover_crash(input, now)
       /\ Returned

LateRecover == clock > EarlyCalls /\ result.op = "recover"

LongRunCheckpoint ==
  /\ clock >= EarlyCalls
  /\ ~LateRecover
  /\ \E now \in {clock} :
       CallDefault(now) /\ continuity_checkpoint(LongRunInput, now) /\ Returned

LastRecover ==
  /\ clock >= EarlyCalls
  /\ ~LateRecover
  /\ \E input \in RecoverInputs, now \in {clock} :
       CallDefault(now) /\ continuity_recover_crash(input, now) /\ Returned

NextDefault == EarlyCall \/ LongRunCheckpoint \/ LastRecover

SpecDefault == InitDefault /\ [][NextDefault]_vars

-----------------------------------------------------------------------------
(* The same handlers, started on a sessions directory that holds a snapshot *)
(* and a database that holds nothing: db_path and sessions_dir are separate *)
(* settings, and the database is created empty when db_path names no file.  *)

RestoredStore ==
  [sessions |-> <<>>, checkpoints |-> <<>>, files |-> PreviousStore.files,
   nextId |-> PreviousStore.nextId]

InitRestored == \E threshold \in 1..MaxThreshold : Started(RestoredStore, threshold)

SpecRestored == InitRestored /\ [][Next]_vars

-----------------------------------------------------------------------------
(* The default configuration over a long run of checkpoints of workspace    *)
(* "a" with at most one full save somewhere in the run.                      *)

MaxCallsLong == 51  \* SpecLongSave: the handlers are called at most this many times

CallLong(now) ==
  /\ clock < MaxCallsLong /\ now = clock /\ clock' = clock + 1
  /\ UNCHANGED <<log, pending>>

LongCheckpoint ==
  \E now \in {clock} :
    CallLong(now) /\ continuity_checkpoint(LongRunInput, now) /\ Returned

LongSave ==
  /\ \A i \in DOMAIN history : history[i].op # "save"
  /\ \E input \in SaveInputs, now \in {clock} :
       CallLong(now) /\ continuity_save_session(input, now) /\ Returned

NextLongSave == LongCheckpoint \/ LongSave

SpecLongSave == InitDefault /\ [][NextLongSave]_vars

-----------------------------------------------------------------------------
(* The server hands the arguments of a call to the handler as they come:   *)
(* requests that lack a field their inputSchema requires reach the handlers *)
(* like any other.                                                          *)

MaxCallsLacking == 2   \* SpecLacking: the handlers are called at most this many times

\* checkpoint requests without workspace, and without operation
CheckpointInputsLacking ==
  { [i EXCEPT !.workspace = Undefined] : i \in {j \in CheckpointInputs : j.workspace = "a"} }
  \cup { [i EXCEPT !.operation = Undefined] : i \in CheckpointInputs }

\* save requests without workspace, without phase, and without next_steps
SaveInputsLacking ==
  LET input == CHOOSE i \in SaveInputs : i.workspace = "a"
  IN  { [input EXCEPT !.workspace = Undefined],
        [input EXCEPT !.phase = Undefined],
        [input EXCEPT !.next_steps = None] }

CallLacking(now) ==
  /\ clock < MaxCallsLacking /\ now = clock /\ clock' = clock + 1
  /\ UNCHANGED <<log, pending>>

SaveRequest ==
  \E input \in SaveInputs \cup SaveInputsLacking, now \in {clock} :
    CallLacking(now) /\ continuity_save_session(input, now) /\ Returned

LoadRequest ==
  \E input \in LoadInputs, now \in {clock} :
    CallLacking(now) /\ continuity_load_session(input, now) /\ Returned

CheckpointRequest ==
  \E input \in CheckpointInputs \cup CheckpointInputsLacking, now \in {clock} :
    CallLacking(now) /\ continuity_checkpoint(input, now) /\ Returned

NextLacking == SaveRequest \/ LoadRequest \/ CheckpointRequest

SpecLacking == Init /\ [][NextLacking]_vars

-----------------------------------------------------------------------------
(* Requests issued at once.  The server receives them one by one; a request *)
(* that has arrived waits until the handler call of the one before it has   *)
(* returned.  The handlers contain no await: a call, once started, runs to  *)
(* its return statement in one turn of the event loop.                      *)

MaxConcurrent == 4   \* SpecConcurrent: at most this many checkpoint requests are issued

Waiting == {i \in CheckpointInputs : pending[i] > 0}

Received ==
  LET total[S \in SUBSET CheckpointInputs] ==
        IF S = {} THEN 0
        ELSE LET i == CHOOSE x \in S : TRUE IN pending[i] + total[S \ {i}]
  IN  total[CheckpointInputs]

\* a client sends a checkpoint request while the ones it sent before are
\* unanswered: the requests are all received before the first is handled
IssueCheckpoint ==
  \E input \in CheckpointInputs :
    /\ clock = 0 /\ Received < MaxConcurrent
    /\ pending' = [pending EXCEPT ![input] = @ + 1]
    /\ UNCHANGED <<config, clock, nextId, sessions, checkpoints, sessionsDir, files,
                   currentSessionId, accumulators, result, history, log>>

\* the server calls the handler for one of the waiting requests
HandleCheckpoint ==
  \E input \in Waiting, now \in {clock} :
    /\ clock' = clock + 1
    /\ pending' = [pending EXCEPT ![input] = @ - 1]
    /\ log' = log
    /\ continuity_checkpoint(input, now)
    /\ Returned

InitConcurrent == \E threshold \in 1..MaxThreshold : Started(EmptyStore, threshold)

NextConcurrent == IssueCheckpoint \/ HandleCheckpoint

SpecConcurrent == InitConcurrent /\ [][NextConcurrent]_vars

-----------------------------------------------------------------------------
(* Checkpoints that give a field a second value, an empty list, an empty   *)
(* phase, and decisions given before, among saves.                          *)

MaxCallsMerge == 3   \* SpecMerge: the handlers are called at most this many times

MergeInputs ==
  CheckpointInputs
  \cup { [workspace |-> w, operation |-> "op3", phase |-> Some("testing"),
          active_files |-> Some(<<>>), next_steps |-> Some(<<"n2", "n1">>),
          decisions |-> Some(<<"d2", "d3", "d1", "d3">>), warnings |-> None,
          trigger |-> None] : w \in Workspaces }
  \cup { [workspace |-> w, operation |-> "op4", phase |-> Some(""),
          active_files |-> None, next_steps |-> None, decisions |-> None,
          warnings |-> None, trigger |-> None] : w \in Workspaces }

CallMerge(now) ==
  /\ clock < MaxCallsMerge /\ now = clock /\ clock' = clock + 1
  /\ UNCHANGED <<log, pending>>

MergeCheckpoint ==
  \E input \in MergeInputs, now \in {clock} :
    CallMerge(now) /\ continuity_checkpoint(input, now) /\ Returned

MergeSave ==
  \E input \in SaveInputs, now \in {clock} :
    CallMerge(now) /\ continuity_save_session(input, now) /\ Returned

InitMerge == \E threshold \in 1..MaxThreshold : Started(EmptyStore, threshold)

NextMerge == MergeCheckpoint \/ MergeSave

SpecMerge == InitMerge /\ [][NextMerge]_vars

-----------------------------------------------------------------------------
(* storage/decision-log and tools/decision-tools: the append-only log of   *)
(* decisions and its two handlers.  The session state is left alone.       *)

\* new Date().toISOString() at instant t
isoText(t) ==
  datePrefix(AbsMinute(t)) \o Chars("T")
    \o Pad2((AbsMinute(t) % 1440) \div 60) \o Chars(":") \o Pad2(AbsMinute(t) % 60)
    \o Chars(":") \o Pad2((t % TicksPerMinute) * (60 \div TicksPerMinute))
    \o Chars(".000Z")

\* String.prototype.toLowerCase, on the letters A-Z
toLowerCase(text) ==
  [i \in DOMAIN text |-> IF text[i] >= 65 /\ text[i] <= 90 THEN text[i] + 32 ELSE text[i]]

\* String.prototype.split(' ')
RECURSIVE split(_)
split(text) ==
  IF \A i \in DOMAIN text : text[i] # 32 THEN <<text>>
  ELSE LET i == CHOOSE k \in DOMAIN text :
                  text[k] = 32 /\ \A j \in 1..(k - 1) : text[j] # 32
       IN  <<SubSeq(text, 1, i - 1)>> \o split(SubSeq(text, i + 1, Len(text)))

\* Array.prototype.join(' ')
RECURSIVE join(_)
join(parts) ==
  IF parts = <<>> THEN <<>>
  ELSE IF Len(parts) = 1 THEN parts[1]
  ELSE parts[1] \o Chars(" ") \o join(Tail(parts))

\* decision.split(' ').slice(0, 3).join(' ')
firstWords(text) ==
  LET words == split(text)
  IN  join(SubSeq(words, 1, IF Len(words) < 3 THEN Len(words) ELSE 3))

\* `${d.decision} ${d.rationale} ${d.alternatives.join(' ')}`.toLowerCase()
searchable(d) ==
  toLowerCase(Chars(d.decision) \o Chars(" ") \o Chars(d.rationale) \o Chars(" ")
                \o join([i \in DOMAIN d.alternatives |-> Chars(d.alternatives[i])]))

\* a log that takes the new line at its head
prepend(lines, decision) == <<decision>> \o lines

\* an append that drops the line when the log holds a similar decision
appendUnlessSimilar(lines, decision) ==
  IF \E i \in DOMAIN lines :
       /\ lines[i].workspace = decision.workspace
       /\ includes(searchable(lines[i]),
                   toLowerCase(firstWords(Chars(decision.decision))))
  THEN lines
  ELSE Append(lines, decision)

\* DecisionLog.append: appendFileSync of one JSON line
append(lines, decision) == Append(lines, decision)

\* DecisionLog.readAll: the lines, parsed; every line append wrote parses
readAll(lines) == lines

\* DecisionLog.count
count(lines) == Len(readAll(lines))

\* a filter that lets a decision through when any one filter field accepts it
passesAny(d, q) ==
  \/ ~Truthy(q.workspace) /\ ~Truthy(q.category) /\ q.since = None /\ q.keyword = None
  \/ Truthy(q.workspace) /\ d.workspace = Get(q.workspace)
  \/ Truthy(q.category) /\ d.category = Get(q.category)
  \/ IsSome(q.since) /\ ~lexLess(isoText(d.timestamp), Get(q.since))
  \/ IsSome(q.keyword) /\ includes(searchable(d), toLowerCase(Get(q.keyword)))

\* the filter of DecisionLog.query on one decision; the keyword is text
passes(d, q) ==
  /\ Truthy(q.workspace) => d.workspace = Get(q.workspace)
  /\ Truthy(q.category) => d.category = Get(q.category)
  /\ (IsSome(q.since) /\ Get(q.since) # <<>>) =>
       ~lexLess(isoText(d.timestamp), Get(q.since))
  /\ (IsSome(q.keyword) /\ Get(q.keyword) # <<>>) =>
       includes(searchable(d), toLowerCase(Get(q.keyword)))

\* DecisionLog.query
query(lines, q) == SelectSeq(readAll(lines), LAMBDA d : passes(d, q))

\* the decisions the duplicate check of log_decision looks at, when the new
\* line is already in the log
existingWithNew(lines, decision) ==
  query(append(lines, decision),
        [workspace |-> Some(decision.workspace), category |-> None, since |-> None,
         keyword |-> Some(firstWords(Chars(decision.decision)))])

\* log.query({workspace, keyword: first three words}), before the append
existing(lines, decision) ==
  query(lines,
        [workspace |-> Some(decision.workspace), category |-> None, since |-> None,
         keyword |-> Some(firstWords(Chars(decision.decision)))])

continuity_log_decision(input, now) ==
  LET decision == [id |-> nextId,
                   timestamp |-> now,
                   workspace |-> input.workspace,
                   category |-> input.category,
                   decision |-> input.decision,
                   rationale |-> input.rationale,
                   alternatives |-> IF IsSome(input.alternatives)
                                    THEN Get(input.alternatives) ELSE <<>>,
                   impact |-> IF Truthy(input.impact) THEN Get(input.impact)
                              ELSE "medium",
                   revisit_trigger |-> input.revisit_trigger]
      similar == existing(log, decision)
  IN  /\ log' = append(log, decision)
      /\ nextId' = nextId + 1
      /\ result' = [op |-> "log_decision", input |-> input, error |-> FALSE,
                    success |-> TRUE, decision_id |-> decision.id,
                    workspace |-> decision.workspace,
                    category |-> decision.category,
                    decision |-> decision.decision,
                    \* the warning, by the id of the decision it names
                    warning |-> IF similar # <<>> THEN Some(similar[1].id) ELSE None,
                    total_decisions |-> count(log')]

continuity_query_decisions(input, now) ==
  LET results == query(log, [workspace |-> input.workspace,
                             category |-> input.category,
                             since |-> IF IsSome(input.since)
                                       THEN Some(Chars(Get(input.since))) ELSE None,
                             keyword |-> IF IsSome(input.keyword)
                                         THEN Some(Chars(Get(input.keyword)))
                                         ELSE None])
  IN  /\ result' = [op |-> "query_decisions", input |-> input, error |-> FALSE,
                    total |-> Len(results), decisions |-> results]
      /\ UNCHANGED <<log, nextId>>

MaxCallsDecisions == 4   \* SpecDecisions: the handlers are called at most this many times

LogInputs ==
  { [workspace |-> "a", category |-> "architectural", decision |-> "Use X",
     rationale |-> "now", alternatives |-> None, impact |-> None,
     revisit_trigger |-> None],
    [workspace |-> "a", category |-> "technical", decision |-> "use x now ok",
     rationale |-> "r", alternatives |-> Some(<<"Y">>), impact |-> Some("high"),
     revisit_trigger |-> Some("r")] }
  \cup { [workspace |-> w, category |-> "technical", decision |-> "y",
          rationale |-> "r", alternatives |-> None, impact |-> None,
          revisit_trigger |-> None] : w \in Workspaces }

QueryInputs ==
  { [workspace |-> None, category |-> None, keyword |-> None, since |-> None],
    [workspace |-> Some("a"), category |-> None, keyword |-> None, since |-> None],
    [workspace |-> None, category |-> Some("technical"), keyword |-> None,
     since |-> None],
    [workspace |-> None, category |-> None, keyword |-> Some("X"), since |-> None],
    [workspace |-> None, category |-> None, keyword |-> None,
     since |-> Some("2026-11-01T23:59:30")],
    [workspace |-> Some("a"), category |-> Some("technical"), keyword |-> Some("y"),
     since |-> None],
    [workspace |-> Some("ab"), category |-> None, keyword |-> Some(""),
     since |-> Some("")],
    [workspace |-> Some("a"), category |-> None, keyword |-> Some("now"),
     since |-> Some("2026-11-01T23:59:30")] }

CallDecisions(now) ==
  /\ clock < MaxCallsDecisions /\ now = clock /\ clock' = clock + 1
  /\ UNCHANGED <<config, sessions, checkpoints, sessionsDir, files,
                 currentSessionId, accumulators, pending>>

LogDecision ==
  \E input \in LogInputs, now \in {clock} :
    CallDecisions(now) /\ continuity_log_decision(input, now) /\ Returned

QueryDecisions ==
  \E input \in QueryInputs, now \in {clock} :
    CallDecisions(now) /\ continuity_query_decisions(input, now) /\ Returned

InitDecisions == Started(EmptyStore, DefaultThreshold)

NextDecisions == LogDecision \/ QueryDecisions

SpecDecisions == InitDecisions /\ [][NextDecisions]_vars

-----------------------------------------------------------------------------
(* tools/utility-tools: continuity_compress_context.  The handler reads and *)
(* writes nothing but its arguments and its return value.  Texts are        *)
(* sequences of character codes.                                            *)

DefaultTargetTokens == 1000

\* Math.floor(text.length / 4)
estimateTokensFloor(text) == Len(text) \div 4

\* Math.ceil(text.length / 4)
estimateTokens(text) == (Len(text) + 3) \div 4

\* String.prototype.split('\n')
RECURSIVE splitLines(_)
splitLines(text) ==
  IF \A i \in DOMAIN text : text[i] # 10 THEN <<text>>
  ELSE LET i == CHOOSE k \in DOMAIN text :
                  text[k] = 10 /\ \A j \in 1..(k - 1) : text[j] # 10
       IN  <<SubSeq(text, 1, i - 1)>> \o splitLines(SubSeq(text, i + 1, Len(text)))

\* Array.prototype.join('\n')
RECURSIVE joinLines(_)
joinLines(lines) ==
  IF lines = <<>> THEN <<>>
  ELSE IF Len(lines) = 1 THEN lines[1]
  ELSE lines[1] \o Chars("\n") \o joinLines(Tail(lines))

\* String.prototype.startsWith
startsWith(text, prefix) ==
  Len(prefix) <= Len(text) /\ SubSeq(text, 1, Len(prefix)) = prefix

\* the characters \s matches and trim() removes, among those of the texts
IsSpace(c) == c \in {9, 10, 13, 32}

\* String.prototype.trim
trim(text) ==
  LET inked == {i \in DOMAIN text : ~IsSpace(text[i])}
  IN  IF inked = {} THEN <<>>
      ELSE SubSeq(text, CHOOSE i \in inked : \A j \in inked : i <= j,
                        CHOOSE i \in inked : \A j \in inked : j <= i)

\* text.replace(/<tag>\s*/, ''): the first occurrence of the tag and the
\* white space after it are removed
replaceTag(text, tag) ==
  LET at == {i \in 1..(Len(text) - Len(tag) + 1) :
               SubSeq(text, i, i + Len(tag) - 1) = tag}
  IN  IF at = {} THEN text
      ELSE LET i == CHOOSE k \in at : \A j \in at : k <= j
               after == i + Len(tag)
               rest == {k \in after..Len(text) : ~IsSpace(text[k])}
               next == IF rest = {} THEN Len(text) + 1
                       ELSE CHOOSE k \in rest : \A j \in rest : k <= j
           IN  SubSeq(text, 1, i - 1) \o SubSeq(text, next, Len(text))

\* the line is pushed to preserved as it is
isKept(line, preserve) ==
  \/ \E k \in DOMAIN preserve : includes(line, preserve[k])
  \/ startsWith(line, Chars("#"))
  \/ includes(toLowerCase(line), Chars("decision"))
  \/ includes(toLowerCase(line), Chars("ratified"))
  \/ includes(toLowerCase(line), Chars("next"))
  \/ includes(toLowerCase(line), Chars("todo"))
  \/ includes(line, Chars("[WARN]"))
  \/ includes(line, Chars("[FAIL]"))

isStatus(line) ==
  \/ includes(line, Chars("[OK]"))
  \/ includes(line, Chars("[DONE]"))
  \/ includes(line, Chars("[WIP]"))

\* the preserved and the compressible lines, each in the order of the text
preservedOf(lines, preserve) ==
  LET kept == SelectSeq(lines, LAMBDA l : isKept(l, preserve) \/ isStatus(l))
  IN  [i \in DOMAIN kept |->
         IF isKept(kept[i], preserve) THEN kept[i]
         ELSE trim(replaceTag(replaceTag(kept[i], Chars("[OK]")), Chars("[DONE]")))]

compressibleOf(lines, preserve) ==
  SelectSeq(lines, LAMBDA l : ~isKept(l, preserve) /\ ~isStatus(l))

\* for (const line of compressible) { if (added + line.length > budgetChars)
\* break; compressed += '\n' + line; added += line.length }
RECURSIVE addWithinBudget(_, _, _, _)
addWithinBudget(compressed, lines, added, budgetChars) ==
  IF lines = <<>> \/ added + Len(lines[1]) > budgetChars THEN compressed
  ELSE addWithinBudget(compressed \o Chars("\n") \o lines[1], Tail(lines),
                       added + Len(lines[1]), budgetChars)

\* Math.round(x * 10) / 10 for x = a / b, in tenths
roundedTenths(a, b) == (20 * a + b) \div (2 * b)

compressContext(fullContext, targetTokens, preserve) ==
  LET originalTokens == estimateTokens(fullContext)
      lines == splitLines(fullContext)
      preserved == joinLines(preservedOf(lines, preserve))
      currentTokens == estimateTokens(preserved)
      compressed ==
        IF currentTokens < targetTokens
        THEN addWithinBudget(preserved, compressibleOf(lines, preserve), 0,
                             (targetTokens - currentTokens) * 4)
        ELSE preserved
      compressedTokens == estimateTokens(compressed)
  IN  IF originalTokens <= targetTokens
      THEN [compressed |-> fullContext,
            original_tokens |-> originalTokens,
            compressed_tokens |-> originalTokens,
            compression_ratio_tenths |-> 10]
      ELSE [compressed |-> trim(compressed),
            original_tokens |-> originalTokens,
            compressed_tokens |-> compressedTokens,
            compression_ratio_tenths |->
              roundedTenths(originalTokens,
                            IF compressedTokens > 1 THEN compressedTokens ELSE 1)]

continuity_compress_context(input) ==
  LET targetTokens == IF IsSome(input.target_tokens) /\ Get(input.target_tokens) # 0
                      THEN Get(input.target_tokens) ELSE DefaultTargetTokens
      preserve == IF IsSome(input.preserve) THEN Get(input.preserve) ELSE <<>>
      r == compressContext(input.full_context, targetTokens, preserve)
  IN  result' = [op |-> "compress", input |-> input, error |-> FALSE,
                 target |-> targetTokens,
                 compressed |-> r.compressed,
                 original_tokens |-> r.original_tokens,
                 compressed_tokens |-> r.compressed_tokens,
                 compression_ratio_tenths |-> r.compression_ratio_tenths]

MaxLines == 3    \* SpecCompress: a text has at most this many lines
MaxTarget == 3   \* SpecCompress: target_tokens is absent or 0..MaxTarget

\* a plain line that ends in a blank, a plain line, a header, a status
\* line, a line with a keyword, an empty line
CompressLines ==
  { Chars("a "), Chars("bbb"), Chars("#h"), Chars("[OK]  c"), Chars("next"), <<>> }

CompressTexts ==
  { joinLines(ls) : ls \in UNION { [1..k -> CompressLines] : k \in 1..MaxLines } }

\* no list; a string with a blank at its end; part of a line; a string that
\* runs over two lines; part of a status line; the empty string
PreserveLists ==
  { None, Some(<<Chars("a ")>>), Some(<<Chars("b")>>),
    Some(<<Chars("bbb") \o Chars("\n") \o Chars("#h")>>),
    Some(<<Chars("c"), Chars("b")>>), Some(<<<<>>>>) }

CompressInputs ==
  { [full_context |-> t, target_tokens |-> n, preserve |-> p] :
      t \in CompressTexts,
      n \in {None} \cup {Some(k) : k \in 0..MaxTarget},
      p \in PreserveLists }

\* a request has arrived: the server calls the handler with its arguments
CompressContext ==
  /\ result.op = "compress_request"
  /\ continuity_compress_context(result.input)
  /\ UNCHANGED <<config, clock, nextId, sessions, checkpoints, sessionsDir, files,
                 currentSessionId, accumulators, history, log, pending>>

\* the process has started on an empty store and a request has arrived
Requested(op, input) ==
  /\ config = [auto_escalation_threshold |-> DefaultThreshold]
  /\ clock = 0
  /\ nextId = EmptyStore.nextId
  /\ sessions = EmptyStore.sessions
  /\ checkpoints = EmptyStore.checkpoints
  /\ sessionsDir = TRUE
  /\ files = EmptyStore.files
  /\ currentSessionId = NoId
  /\ accumulators = <<>>
  /\ history = <<>>
  /\ log = <<>>
  /\ pending = [i \in CheckpointInputs |-> 0]
  /\ result = [op |-> op, input |-> input, error |-> FALSE]

InitCompress == \E input \in CompressInputs : Requested("compress_request", input)

NextCompress == CompressContext

SpecCompress == InitCompress /\ [][NextCompress]_vars

\* texts of lines with each of the three status markers, a header, a plain
\* line and a warning, none with white space at its ends
MarkerLines ==
  { Chars("[WIP] c"), Chars("[DONE] c"), Chars("[OK]  c"), Chars("#h"),
    Chars("bbb"), Chars("[WARN]") }

MarkerTexts ==
  { joinLines(ls) : ls \in UNION { [1..k -> MarkerLines] : k \in 1..MaxLines } }

\* no preserve list, and one that matches every status line
MarkerInputs ==
  { [full_context |-> t, target_tokens |-> Some(n), preserve |-> p] :
      t \in MarkerTexts, n \in 1..MaxTarget, p \in {None, Some(<<Chars("c")>>)} }

InitMarkers == \E input \in MarkerInputs : Requested("compress_request", input)

NextMarkers == CompressContext

SpecMarkers == InitMarkers /\ [][NextMarkers]_vars

-----------------------------------------------------------------------------
(* tools/utility-tools: continuity_handoff_quality.  The fields of the      *)
(* request are optional; the elements pushed to warnings and suggestions    *)
(* are named by short tags.                                                 *)

\* field && field.length > 0
NonEmpty(field) == IsSome(field) /\ Len(Get(field)) > 0

\* the points of the five required fields
requiredPoints(input) ==
  (IF Truthy(input.workspace) THEN 10 ELSE 0)
  + (IF Truthy(input.phase) THEN 10 ELSE 0)
  + (IF NonEmpty(input.next_steps) THEN 20 ELSE 0)
  + (IF NonEmpty(input.active_files) THEN 10 ELSE 0)
  + (IF NonEmpty(input.completed_operations) THEN 10 ELSE 0)

\* missing, in the order the elements are pushed
missingOf(input) ==
  (IF Truthy(input.workspace) THEN <<>> ELSE <<"workspace">>)
  \o (IF Truthy(input.phase) THEN <<>> ELSE <<"phase">>)
  \o (IF NonEmpty(input.next_steps) THEN <<>> ELSE <<"next_steps">>)
  \o (IF NonEmpty(input.active_files) THEN <<>> ELSE <<"active_files">>)
  \o (IF NonEmpty(input.completed_operations) THEN <<>> ELSE <<"completed_operations">>)

\* input.phase && typeof input.phase === 'string' && input.phase.length > 3
specificPhase(input) == Truthy(input.phase) /\ Len(Chars(Get(input.phase))) > 3

\* the points of the optional fields
optionalPoints(input) ==
  (IF Truthy(input.git_branch) THEN 10 ELSE 0)
  + (IF NonEmpty(input.warnings) THEN 5 ELSE 0)
  + (IF NonEmpty(input.decisions_made) THEN 15 ELSE 0)
  + (IF specificPhase(input) THEN 10 ELSE 0)

suggestionsOf(input) ==
  (IF Truthy(input.git_branch) THEN <<>> ELSE <<"git_branch">>)
  \o (IF NonEmpty(input.decisions_made) THEN <<>> ELSE <<"decisions_made">>)
  \o (IF specificPhase(input) THEN <<>> ELSE <<"phase">>)

\* warnings of the quality checks on nextSteps = input.next_steps || []
stepWarnings(nextSteps) ==
  (IF Len(nextSteps) > 0 /\ Len(Chars(nextSteps[1])) < 10
   THEN <<"short_first_step">> ELSE <<>>)
  \o (IF Len(nextSteps) > 10 THEN <<"too_many_steps">> ELSE <<>>)

\* a check that takes more for a short first step than the steps bring
stepPenaltyHeavy(nextSteps) == 25 * Len(stepWarnings(nextSteps))

\* score -= 5 for each warning of the quality checks
stepPenalty(nextSteps) == 5 * Len(stepWarnings(nextSteps))

validateHandoff(input) ==
  LET nextSteps == IF IsSome(input.next_steps) THEN Get(input.next_steps) ELSE <<>>
      score == requiredPoints(input) + optionalPoints(input) - stepPenalty(nextSteps)
  IN  [completeness_score |-> IF score < 0 THEN 0 ELSE IF score > 100 THEN 100 ELSE score,
       missing_elements |-> missingOf(input),
       warnings |-> stepWarnings(nextSteps),
       suggestions |-> suggestionsOf(input)]

continuity_handoff_quality(input) ==
  LET quality == validateHandoff(input)
  IN  result' = [op |-> "handoff_quality", input |-> input, error |-> FALSE,
                 completeness_score |-> quality.completeness_score,
                 missing_elements |-> quality.missing_elements,
                 warnings |-> quality.warnings,
                 suggestions |-> quality.suggestions]

\* next_steps: none, an empty list, a short first step, a first step of ten
\* characters or more, more than ten steps
NextStepsGiven ==
  { None, Some(<<>>), Some(<<"n1">>), Some(<<"write the tests", "n1">>),
    Some([i \in 1..11 |-> "n1"]) }

HandoffInputs ==
  { [workspace |-> w, phase |-> ph, completed_operations |-> ops,
     active_files |-> af, next_steps |-> ns, git_branch |-> gb, warnings |-> wa,
     decisions_made |-> dm] :
      w \in {None, Some(""), Some("a")},
      ph \in {None, Some(""), Some("now"), Some("impl")},
      ops \in {None, Some(<<>>), Some(<<[description |-> "built", result |-> ""]>>)},
      af \in {None, Some(<<>>), Some(<<"f1">>)},
      ns \in NextStepsGiven,
      gb \in {None, Some("ab")},
      wa \in {None, Some(<<"w1">>)},
      dm \in {None, Some(<<"d1">>)} }

\* a request has arrived: the server calls the handler with its arguments
HandoffQuality ==
  /\ result.op = "handoff_quality_request"
  /\ continuity_handoff_quality(result.input)
  /\ UNCHANGED <<config, clock, nextId, sessions, checkpoints, sessionsDir, files,
                 currentSessionId, accumulators, history, log, pending>>

InitHandoff == \E input \in HandoffInputs : Requested("handoff_quality_request", input)

NextHandoff == HandoffQuality

SpecHandoff == InitHandoff /\ [][NextHandoff]_vars

-----------------------------------------------------------------------------
(* Properties.  They are stated over the stores and over history, whose    *)
(* i-th entry is the i-th call with what it returned.                      *)

IsCheckpoint(call) == call.op = "checkpoint" /\ ~call.error
IsSave(call) == call.op = "save" /\ ~call.error
IsLoad(call) == call.op = "load" /\ call.success
IsRecover(call, w) == call.op = "recover" /\ call.input.workspace = Some(w)

\* the session records of workspace w that are not marked as cleanly ended
Unclean(w) == {i \in DOMAIN sessions : sessions[i].workspace = w /\ ~sessions[i].ended_cleanly}

\* C1: consume-once crash detection.  When recoverCrash(w) is called twice
\* in a row and the record the first call reports is the only unclean record
\* of w, the first call returns detected=true and the second detected=false.
C1_ConsumeOnce ==
  \A i \in 1..(Len(history) - 1), w \in Workspaces :
    ( /\ IsRecover(history[i], w)
      /\ IsRecover(history[i + 1], w)
      /\ history[i].detected
      /\ \A r \in Unclean(w) : sessions[r].id = Get(history[i].last_session).id )
    => ~history[i + 1].detected

\* what an accumulator holds, and what a payload holds, without the instants
\* the operations are stamped with
Accumulated(acc) ==
  [phase |-> acc.phase, active_files |-> acc.active_files,
   next_steps |-> acc.next_steps, decisions_made |-> acc.decisions_made,
   warnings |-> acc.warnings,
   completed_operations |->
     [i \in DOMAIN acc.completed_operations |->
        [description |-> acc.completed_operations[i].description,
         result |-> acc.completed_operations[i].result]]]

RowsWithId(id) == {i \in DOMAIN checkpoints : checkpoints[i].id = id}

\* C2: after a checkpoint call on w the checkpoint just persisted is stored,
\* is the latest checkpoint of w, and its payload is the whole accumulated
\* state of w: phase, active_files, next_steps, decisions_made, warnings and
\* every completed operation.
C2_PayloadIsWholeState ==
  IsCheckpoint(result) =>
    LET w == result.workspace
        rows == RowsWithId(result.checkpoint_id)
    IN  /\ Cardinality(rows) = 1
        /\ getLatestCheckpoint(checkpoints, w) = rows
        /\ w \in DOMAIN accumulators
        /\ \A i \in rows :
             Accumulated(checkpoints[i].state) = Accumulated(accumulators[w])

\* a call that passed no phase, files, steps or warnings persisted a payload
\* that carries them, and two operations, from the calls before it
C2_Witness ==
  /\ IsCheckpoint(result)
  /\ result.input.phase = None
  /\ result.input.warnings = None
  /\ \E i \in RowsWithId(result.checkpoint_id) :
       /\ checkpoints[i].state.phase = "impl"
       /\ checkpoints[i].state.warnings = <<"w1">>
       /\ checkpoints[i].state.decisions_made = <<"d1", "d2">>
       /\ Len(checkpoints[i].state.completed_operations) = 2

\* the number of checkpoint calls on w since its accumulator was created:
\* those after the last full save of w
SinceCreated(w) ==
  LET saves == {i \in DOMAIN history : IsSave(history[i]) /\ history[i].input.workspace = w}
  IN  {i \in DOMAIN history :
         /\ history[i].op = "checkpoint" /\ history[i].input.workspace = w
         /\ \A j \in saves : j < i}

\* C3: a checkpoint call returns auto_escalated=true, with the handoff_path
\* of an artifact that was written, exactly when it is the threshold-th call
\* on that workspace since the accumulator was created or last escalated,
\* that is when the number of calls since the accumulator was created is a
\* multiple of the threshold; every other call returns auto_escalated=false
\* and no handoff_path.
C3_EscalatesAtThreshold ==
  IsCheckpoint(result) =>
    LET n == Cardinality(SinceCreated(result.workspace))
    IN  IF n % config.auto_escalation_threshold = 0
        THEN /\ result.auto_escalated
             /\ IsSome(result.handoff_path)
             /\ Get(result.handoff_path).filename \in DOMAIN files
        ELSE /\ ~result.auto_escalated
             /\ result.handoff_path = None

\* a second checkpoint under threshold 2 has escalated, after a first that
\* has not
C3_Witness ==
  /\ config.auto_escalation_threshold = 2
  /\ Len(history) >= 2
  /\ IsCheckpoint(result) /\ result.auto_escalated
  /\ IsCheckpoint(history[Len(history) - 1])
  /\ ~history[Len(history) - 1].auto_escalated
  /\ history[Len(history) - 1].workspace = result.workspace

\* the checkpoint calls on workspace w, by their place in history
CheckpointsOn(w) ==
  {i \in DOMAIN history : IsCheckpoint(history[i]) /\ history[i].workspace = w}

\* j is the first checkpoint call on w after call i
NextCheckpointOn(w, i, j) ==
  /\ j \in CheckpointsOn(w)
  /\ i < j
  /\ \A k \in CheckpointsOn(w) : ~(i < k /\ k < j)

\* C4: when a checkpoint call brings the counter to the threshold (it
\* escalates), the counter is 0 after that call, and the next checkpoint
\* call on the same workspace reports checkpoint_number 1.
C4_NextReportsOne ==
  /\ (IsCheckpoint(result) /\ result.auto_escalated)
       => accumulators[result.workspace].checkpoint_count = 0
  /\ \A w \in Workspaces : \A i \in CheckpointsOn(w), j \in CheckpointsOn(w) :
       (history[i].auto_escalated /\ NextCheckpointOn(w, i, j))
         => history[j].checkpoint_number = 1

\* C4, as the handler behaves: the counter is 0 after an escalating call and
\* the next checkpoint call on the same workspace counts from 1; it reports
\* checkpoint_number 1 when the threshold is above 1, and with threshold 1
\* it escalates again and reports checkpoint_number 0.
C4_CounterRestarts ==
  /\ (IsCheckpoint(result) /\ result.auto_escalated)
       => accumulators[result.workspace].checkpoint_count = 0
  /\ \A w \in Workspaces : \A i \in CheckpointsOn(w), j \in CheckpointsOn(w) :
       (history[i].auto_escalated /\ NextCheckpointOn(w, i, j))
         => IF config.auto_escalation_threshold > 1
            THEN history[j].checkpoint_number = 1 /\ ~history[j].auto_escalated
            ELSE history[j].checkpoint_number = 0 /\ history[j].auto_escalated

\* under threshold 2 the call after an escalating call has reported 1
C4_Witness ==
  /\ config.auto_escalation_threshold = 2
  /\ \E w \in Workspaces : \E i \in CheckpointsOn(w) :
       /\ history[i].auto_escalated
       /\ NextCheckpointOn(w, i, Len(history))
       /\ result.checkpoint_number = 1
       /\ accumulators[w].checkpoint_count = 1

\* C5: from an empty store and with the default threshold, 15 checkpoint
\* calls on workspace w and nothing else, then recoverCrash(w): the call
\* returns detected=true with operations_lost=0.
C5_CrashDetectedAfterCheckpoints ==
  \A w \in Workspaces :
    ( /\ config.auto_escalation_threshold = DefaultThreshold
      /\ Len(history) = DefaultThreshold + 1
      /\ \A i \in 1..DefaultThreshold :
           IsCheckpoint(history[i]) /\ history[i].workspace = w
      /\ IsRecover(result, w) )
    => result.detected /\ result.operations_lost = 0

\* a call was made in this step
Called == history' # history

\* the records that this step marks as cleanly ended
NewlyClean ==
  {i \in DOMAIN sessions' :
     /\ sessions'[i].ended_cleanly
     /\ ~(i \in DOMAIN sessions /\ sessions[i].ended_cleanly)}

\* C6: a session record gets ended_cleanly=true only from a full save: no
\* checkpoint (escalating or not), load or recoverCrash call marks any
\* record as cleanly ended.
C6_OnlySaveEndsCleanly ==
  [][(Called /\ result'.op \in {"checkpoint", "load", "recover"})
       => NewlyClean = {}]_vars

\* C6, as the handlers behave: a record gets ended_cleanly=true only from a
\* full save or from an escalating checkpoint, which closes the tracked
\* record and no other; a checkpoint that does not escalate, a load and a
\* recoverCrash mark no record as cleanly ended.
C6_SaveOrEscalationEndsCleanly ==
  [][(Called /\ result'.op \in {"checkpoint", "load", "recover"})
       => \/ NewlyClean = {}
          \/ /\ IsCheckpoint(result') /\ result'.auto_escalated
             /\ \A i \in NewlyClean :
                  /\ i \in DOMAIN sessions
                  /\ sessions[i].id = currentSessionId
                  /\ sessions'[i].handoff_path = result'.handoff_path]_vars

\* an escalating checkpoint has closed the tracked record as cleanly ended
C6_Witness ==
  /\ IsCheckpoint(result) /\ result.auto_escalated
  /\ \E i \in DOMAIN sessions :
       /\ sessions[i].ended_cleanly
       /\ sessions[i].handoff_path = result.handoff_path
       /\ sessions[i].id # currentSessionId

IsPrefix(a, b) == Len(a) <= Len(b) /\ SubSeq(b, 1, Len(a)) = a

\* a checkpoint with this input has left what old held in place in new:
\* the lists have only grown at their end, and phase, active_files and
\* next_steps are as before unless the input carries them
InPlace(old, new, input) ==
  /\ IsPrefix(old.completed_operations, new.completed_operations)
  /\ IsPrefix(old.decisions_made, new.decisions_made)
  /\ IsPrefix(old.warnings, new.warnings)
  /\ new.phase = IF IsSome(input.phase) THEN Get(input.phase) ELSE old.phase
  /\ new.active_files = IF IsSome(input.active_files) THEN Get(input.active_files)
                        ELSE old.active_files
  /\ new.next_steps = IF IsSome(input.next_steps) THEN Get(input.next_steps)
                      ELSE old.next_steps

\* the first checkpoint of an accumulator: it holds what the input carries
\* and one operation, and its counter is 1, which an escalation at once
\* (threshold 1) writes into the escalated snapshot before it resets it
Fresh(new, call, dir) ==
  /\ Len(new.completed_operations) = 1
  /\ new.completed_operations[1].description = call.input.operation
  /\ new.phase = IF IsSome(call.input.phase) THEN Get(call.input.phase) ELSE "unknown"
  /\ new.warnings = IF IsSome(call.input.warnings) THEN Get(call.input.warnings)
                    ELSE <<>>
  /\ new.active_files = IF IsSome(call.input.active_files)
                        THEN Get(call.input.active_files) ELSE <<>>
  /\ \A i \in DOMAIN new.decisions_made :
       \E k \in DOMAIN Get(call.input.decisions) :
         Get(call.input.decisions)[k] = new.decisions_made[i]
  /\ IF call.auto_escalated
     THEN dir[Get(call.handoff_path).filename].metadata.checkpoint_count = 1
     ELSE new.checkpoint_count = 1 /\ call.checkpoint_number = 1

\* C7: the accumulator of a workspace is removed only by a full save of that
\* workspace.  A checkpoint of the workspace, escalating or not, leaves its
\* phase and lists in place; a load, a recoverCrash, a save or a checkpoint
\* of another workspace leave it as it is; save(w) removes it, and the next
\* checkpoint on w starts from a fresh accumulator (counter 1, one completed
\* operation).
C7_AccumulatorLifetime ==
  [][Called =>
       \A w \in Workspaces :
         LET saved == IsSave(result') /\ result'.input.workspace = w
             merged == IsCheckpoint(result') /\ result'.workspace = w
         IN  /\ saved => w \notin DOMAIN accumulators'
             /\ (w \in DOMAIN accumulators /\ ~saved) =>
                  /\ w \in DOMAIN accumulators'
                  /\ IF merged
                     THEN InPlace(accumulators[w], accumulators'[w], result'.input)
                     ELSE accumulators'[w] = accumulators[w]
             /\ (w \notin DOMAIN accumulators /\ merged) =>
                  /\ w \in DOMAIN accumulators'
                  /\ Fresh(accumulators'[w], result', files')
             /\ (w \notin DOMAIN accumulators /\ ~merged) =>
                  w \notin DOMAIN accumulators']_vars

\* a checkpoint of w, a save of w and a checkpoint of w again: the
\* accumulator holds the one operation of the last call
C7_Witness ==
  /\ Len(history) = 3
  /\ \E w \in Workspaces :
       /\ IsCheckpoint(history[1]) /\ history[1].workspace = w
       /\ IsSave(history[2]) /\ history[2].input.workspace = w
       /\ IsCheckpoint(history[3]) /\ history[3].workspace = w
       /\ Len(accumulators[w].completed_operations) = 1
       /\ accumulators[w].checkpoint_count = 1

\* the rows of a workspace, in the order they are stored
RowsOfWorkspace(tbl, w) == SelectSeq(tbl, LAMBDA r : r.workspace = w)

\* C8: after a checkpoint call on workspace w the number of checkpoints
\* stored for w is at most the keep-count (50), and the checkpoints of every
\* other workspace are as they were before the call.
C8_PruneKeepsBound ==
  [][(Called /\ IsCheckpoint(result'))
       => /\ Len(RowsOfWorkspace(checkpoints', result'.workspace)) <= KeepCount
          /\ \A v \in Workspaces \ {result'.workspace} :
               RowsOfWorkspace(checkpoints', v) = RowsOfWorkspace(checkpoints, v)]_vars

\* more than keep-count checkpoints of "a" were written, keep-count of them
\* are stored, the first is gone, and the checkpoint of "ab" is still there
C8_Witness ==
  /\ IsCheckpoint(result) /\ result.workspace = "a"
  /\ Cardinality(CheckpointsOn("a")) > KeepCount
  /\ Len(RowsOfWorkspace(checkpoints, "a")) = KeepCount
  /\ \A i \in DOMAIN checkpoints :
       checkpoints[i].workspace = "a" => checkpoints[i].timestamp > 1
  /\ Len(RowsOfWorkspace(checkpoints, "ab")) = 1

\* C9: a successful load creates a new session record with ended_cleanly =
\* false and no end time for the workspace of the snapshot it loaded, and
\* makes it the tracked session; when no full save follows, the next
\* recoverCrash for that workspace returns detected=true.
C9_LoadOpensUncleanSession ==
  /\ IsLoad(result) =>
       LET new == sessions[Len(sessions)]
       IN  /\ new.id = currentSessionId
           /\ new.workspace = files[result.target_file].workspace
           /\ ~new.ended_cleanly
           /\ new.end_time = None
           /\ new.start_time = clock - 1
           /\ \A i \in 1..(Len(sessions) - 1) : sessions[i].id # new.id
  /\ \A i \in DOMAIN history, j \in DOMAIN history :
       ( /\ i < j
         /\ IsLoad(history[i])
         /\ IsRecover(history[j], history[i].workspace)
         /\ \A k \in DOMAIN history :
              (i < k /\ k < j) =>
                /\ history[k].op # "save"
                /\ ~IsRecover(history[k], history[i].workspace) )
       => history[j].detected

\* no artifact name matches what the load input asks for
NoArtifactMatches(input) ==
  IF IsSome(input.session_id)
  THEN \A f \in DOMAIN files : ~includes(jsonName(f), uuidText(Get(input.session_id)))
  ELSE IF IsSome(input.workspace)
  THEN \A f \in DOMAIN files : ~includes(jsonName(f), Chars(Get(input.workspace)))
  ELSE DOMAIN files = {}

\* C10: a load that finds no sessions directory or no matching artifact
\* returns success=false without an error, and a load that returns
\* success=false has created no session record and has left the tracked
\* session id, the accumulators and the store as they were.
C10_FailedLoadChangesNothing ==
  [][(Called /\ result'.op = "load")
       => /\ ~result'.error
          /\ (~sessionsDir \/ NoArtifactMatches(result'.input)) => ~result'.success
          /\ ~result'.success =>
               UNCHANGED <<sessions, checkpoints, files, sessionsDir,
                           currentSessionId, accumulators, nextId>>]_vars

\* a load has failed for want of a matching artifact while artifacts are
\* stored, a session is tracked and an accumulator exists
C10_Witness ==
  /\ result.op = "load" /\ ~result.success
  /\ sessionsDir /\ DOMAIN files # {}
  /\ currentSessionId # NoId
  /\ DOMAIN accumulators # {}

\* a load that names neither a workspace nor a session id
IsLoadOfLatest(call) ==
  call.op = "load" /\ call.input.workspace = None /\ call.input.session_id = None

\* C11: a load with neither workspace nor session_id returns the snapshot
\* that was written latest among all stored snapshots of all workspaces:
\* the reverse lexical order of the artifact names agrees with the order in
\* which the snapshots were written.
C11_LoadsLatestWritten ==
  (IsLoadOfLatest(result) /\ DOMAIN files # {}) =>
    /\ result.success
    /\ \A f \in DOMAIN files :
         files[f].timestamp <= files[result.target_file].timestamp

\* C12: load(session_id = s), where s is the id a stored snapshot carries
\* (returned by the full save, or written by the escalation, that made it),
\* returns the snapshot whose id is s.
C12_LoadsBySessionId ==
  (result.op = "load" /\ IsSome(result.input.session_id)
     /\ \E f \in DOMAIN files : files[f].id = Get(result.input.session_id))
  => (result.success /\ result.session_id = Get(result.input.session_id))

\* a snapshot was written in this step: by a full save or by an escalation
WroteSnapshot ==
  /\ Called
  /\ \/ IsSave(result')
     \/ IsCheckpoint(result') /\ result'.auto_escalated

\* C13: every full save and every escalation writes a new snapshot artifact
\* and leaves every artifact written before unchanged, whatever the
\* workspaces and however close in time the two events are; so the number
\* of stored snapshots grows by one with each such event.
C13_EverySnapshotIsNew ==
  [][WroteSnapshot =>
       /\ Cardinality(DOMAIN files') = Cardinality(DOMAIN files) + 1
       /\ \A f \in DOMAIN files : f \in DOMAIN files' /\ files'[f] = files[f]]_vars

IsLogDecision(call) == call.op = "log_decision"

IsQuery(call) == call.op = "query_decisions"

IsQueryAll(call) ==
  /\ IsQuery(call)
  /\ call.input.workspace = None /\ call.input.category = None
  /\ call.input.keyword = None /\ call.input.since = None

\* the number of logDecision calls before call i
LoggedBefore(i) == Cardinality({j \in 1..(i - 1) : IsLogDecision(history[j])})

\* C14: a query with no filters returns every decision appended so far, each
\* as it was given, in append order; what an earlier such query returned is
\* a prefix of what a later one returns.
C14_LogOnlyGrows ==
  \A i \in DOMAIN history :
    IsQueryAll(history[i]) =>
      /\ Len(history[i].decisions) = LoggedBefore(i)
      /\ history[i].total = LoggedBefore(i)
      /\ \A j \in 1..(i - 1) :
           /\ IsLogDecision(history[j]) =>
                LET d == history[i].decisions[LoggedBefore(j) + 1]
                IN  /\ d.id = history[j].decision_id
                    /\ d.workspace = history[j].input.workspace
                    /\ d.category = history[j].input.category
                    /\ d.decision = history[j].input.decision
                    /\ d.rationale = history[j].input.rationale
                    /\ d.revisit_trigger = history[j].input.revisit_trigger
           /\ IsQueryAll(history[j]) =>
                IsPrefix(history[j].decisions, history[i].decisions)

C14_Witness ==
  \E i, j \in DOMAIN history :
    /\ i < j /\ IsQueryAll(history[i]) /\ IsQueryAll(history[j])
    /\ Len(history[i].decisions) = 1 /\ Len(history[j].decisions) = 2


NoFilter == [workspace |-> None, category |-> None, since |-> None, keyword |-> None]

\* C15: every logDecision call appends exactly one decision, the one whose
\* id it returns: the count it reports is one more than before, and the
\* decision can be retrieved, with or without a duplicate warning.
C15_AlwaysAppendsOne ==
  [][(Called /\ IsLogDecision(result')) =>
       /\ Len(log') = Len(log) + 1
       /\ SubSeq(log', 1, Len(log)) = log
       /\ result'.total_decisions = Len(log) + 1
       /\ log'[Len(log')].id = result'.decision_id
       /\ log'[Len(log')].decision = result'.input.decision
       /\ \E k \in DOMAIN query(log', NoFilter) :
            query(log', NoFilter)[k].id = result'.decision_id]_vars

C15_Witness ==
  /\ IsLogDecision(result) /\ IsSome(result.warning)
  /\ result.total_decisions = 2 /\ Len(log) = 2
  /\ log[2].id = result.decision_id


\* the positions of the earlier decisions that the new decision, the last
\* line of the log, is similar to: same workspace, and the first three words
\* of the new text are, in lower case, inside the lower-cased text of the
\* earlier decision, rationale and alternatives
SimilarEarlier ==
  LET new == log[Len(log)]
  IN  { k \in 1..(Len(log) - 1) :
          /\ log[k].workspace = new.workspace
          /\ includes(searchable(log[k]),
                      toLowerCase(firstWords(Chars(new.decision)))) }

C16_WitnessOtherWorkspace ==
  /\ IsLogDecision(result) /\ Len(log) = 2
  /\ log[1].decision = log[2].decision /\ log[1].workspace # log[2].workspace
  /\ result.warning = None


\* decision d satisfies every filter field that the request f carries
Satisfies(d, f) ==
  /\ IsSome(f.workspace) => d.workspace = Get(f.workspace)
  /\ IsSome(f.category) => d.category = Get(f.category)
  /\ IsSome(f.since) => ~lexLess(isoText(d.timestamp), Chars(Get(f.since)))
  /\ IsSome(f.keyword) =>
       includes(toLowerCase(Chars(d.decision) \o Chars(" ") \o Chars(d.rationale)
                              \o Chars(" ")
                              \o join([i \in DOMAIN d.alternatives |->
                                         Chars(d.alternatives[i])])),
                toLowerCase(Chars(Get(f.keyword))))

IsDetection(call) == call.op = "recover" /\ call.detected

\* C18: a recoverCrash call that detects a crash reports no lost operations
\* and the latest checkpoint of the crashed session's workspace when that
\* workspace has a stored checkpoint, and otherwise reports the crashed
\* record's operations_count as lost.
C18_OperationsLost ==
  IsDetection(result) =>
    LET crashed == Get(result.last_session)
        rows == {i \in DOMAIN checkpoints : checkpoints[i].workspace = crashed.workspace}
    IN  IF rows # {}
        THEN /\ result.operations_lost = 0
             /\ \E i \in rows :
                  /\ result.last_checkpoint = Some(checkpoints[i])
                  /\ \A j \in rows : checkpoints[j].timestamp <= checkpoints[i].timestamp
        ELSE /\ result.operations_lost = crashed.operations_count
             /\ result.last_checkpoint = None

\* a session opened from a snapshot whose workspace has no checkpoint, one
\* operation counted on it: the operation is reported lost
C18_Witness ==
  /\ IsDetection(result)
  /\ \A i \in DOMAIN checkpoints :
       checkpoints[i].workspace # Get(result.last_session).workspace
  /\ Get(result.last_session).operations_count = 1
  /\ result.operations_lost = 1

\* a checkpoint of the crashed workspace is stored: the operation counted on
\* the session is not reported lost
C18_WitnessWithCheckpoint ==
  /\ IsDetection(result) /\ result.operations_lost = 0
  /\ Get(result.last_session).operations_count = 1
  /\ IsSome(result.last_checkpoint)
  /\ Get(result.last_checkpoint).workspace = Get(result.last_session).workspace


\* the call being answered is a checkpoint that reaches the threshold while
\* the sessions directory is gone: writing the escalation artifacts fails
EscalationWriteFails ==
  /\ Called /\ result'.op = "checkpoint"
  /\ ~sessionsDir
  /\ shouldEscalate(
       mergedAccumulator(getOrCreateAccumulator(accumulators, result'.input.workspace),
                         result'.input),
       config)

\* C19: when writing the escalation artifacts fails during a checkpoint
\* call, the call still answers success=true with the id of the checkpoint
\* it stored.
C19_EscalationFailureKeepsSuccess ==
  [][EscalationWriteFails =>
       /\ ~result'.error
       /\ result'.success
       /\ \E i \in DOMAIN checkpoints' : checkpoints'[i].id = result'.checkpoint_id]_vars


\* the request of this call lacks a field that its inputSchema requires
LacksRequired(call) ==
  \/ /\ call.op = "checkpoint"
     /\ call.input.workspace = Undefined \/ call.input.operation = Undefined
  \/ /\ call.op = "save"
     /\ \/ call.input.workspace = Undefined
        \/ call.input.phase = Undefined
        \/ call.input.next_steps = None

\* C20: a checkpoint or save request that lacks a required field is answered
\* with an error, and the accumulators, the checkpoints, the session records
\* and the snapshot artifacts are as they were before the call.
C20_LackingRequestRejected ==
  [][(Called /\ LacksRequired(result')) =>
       /\ result'.error
       /\ UNCHANGED <<accumulators, checkpoints, sessions, files>>]_vars


\* the checkpoint requests on workspace w that were handled, by their place
\* in history
HandledOn(w) ==
  {i \in DOMAIN history : history[i].op = "checkpoint" /\ history[i].input.workspace = w}

\* C21: requests issued at once are handled one after the other.  When n
\* checkpoint requests on w have been handled, the accumulator of w holds n
\* completed operations, its counter has lost no increment, and the k-th of
\* them escalated exactly when k is a multiple of the threshold.
C21_ConcurrentRequestsSerialized ==
  \A w \in Workspaces :
    LET n == Cardinality(HandledOn(w))
        T == config.auto_escalation_threshold
    IN  n > 0 =>
          /\ w \in DOMAIN accumulators
          /\ Len(accumulators[w].completed_operations) = n
          /\ accumulators[w].checkpoint_count = n % T
          /\ \A i \in HandledOn(w) :
               LET k == Cardinality({j \in HandledOn(w) : j <= i})
               IN  /\ ~history[i].error
                   /\ history[i].auto_escalated <=> (k % T = 0)
                   /\ accumulators[w].completed_operations[k].description
                        = history[i].input.operation

\* four requests on one workspace, issued at once, threshold 2, all handled:
\* the second and the fourth escalated
C21_Witness ==
  /\ Waiting = {} /\ Len(history) = 4
  /\ config.auto_escalation_threshold = 2
  /\ \A i \in DOMAIN history : history[i].input.workspace = "a"
  /\ history[1].input # history[2].input
  /\ Len(accumulators["a"].completed_operations) = 4
  /\ history[2].auto_escalated /\ history[4].auto_escalated


\* the list a request carries in an optional field, [] when it carries none
Given(field) == IF IsSome(field) THEN Get(field) ELSE <<>>

\* C22: the snapshot a full save writes is determined by the fields of the
\* request: phase, active_files, next_steps and warnings are the request's,
\* completed_operations are the request's operations, and decisions_made is
\* empty, whatever the checkpoints before the save have accumulated.
C22_SnapshotFromRequestOnly ==
  IsSave(result) =>
    LET snap == files[result.json_path.filename]
        ops == Given(result.input.completed_operations)
    IN  /\ snap.phase = result.input.phase
        /\ snap.active_files = Given(result.input.active_files)
        /\ snap.next_steps = Given(result.input.next_steps)
        /\ snap.warnings = Given(result.input.warnings)
        /\ snap.decisions_made = <<>>
        /\ Len(snap.completed_operations) = Len(ops)
        /\ \A k \in DOMAIN ops :
             /\ snap.completed_operations[k].description = ops[k].description
             /\ snap.completed_operations[k].timestamp = snap.timestamp
             /\ snap.completed_operations[k].result
                  = (IF ops[k].result = "" THEN "success" ELSE ops[k].result)

\* a save of a workspace whose accumulator held a phase, files, decisions,
\* warnings and an operation of its own, from the checkpoint just before
C22_Witness ==
  /\ IsSave(result) /\ Len(history) >= 2
  /\ LET before == history[Len(history) - 1]
     IN  /\ IsCheckpoint(before) /\ ~before.auto_escalated
         /\ before.input.workspace = result.input.workspace
         /\ IsSome(before.input.decisions) /\ IsSome(before.input.warnings)
         /\ IsSome(before.input.phase)
         /\ Some(files[result.json_path.filename].phase) # before.input.phase


IsCompress(call) == call.op = "compress"

\* C23: a text whose estimate, ceil(length / 4), is within the target comes
\* back unchanged, with original_tokens = compressed_tokens = the estimate
\* and ratio 1, whatever the preserve list.
C23_WithinBudgetUnchanged ==
  (IsCompress(result) /\ Len(result.input.full_context) <= 4 * result.target) =>
    /\ result.compressed = result.input.full_context
    /\ result.original_tokens = result.compressed_tokens
    /\ 4 * result.original_tokens >= Len(result.input.full_context)
    /\ 4 * result.original_tokens < Len(result.input.full_context) + 4
    /\ result.compression_ratio_tenths = 10

\* a text of several lines, one a status line, exactly as long as the budget
\* allows, with a preserve list
C23_Witness ==
  /\ IsCompress(result)
  /\ result.input.target_tokens = Some(result.target)
  /\ Len(result.input.full_context) = 4 * result.target
  /\ IsSome(result.input.preserve)
  /\ \E i \in DOMAIN result.input.full_context : result.input.full_context[i] = 10
  /\ includes(result.input.full_context, Chars("[OK]"))
  /\ result.compressed = result.input.full_context


\* C24: every preserve string that occurs in the input text occurs in the
\* compressed output.
C24_PreservedStringsKept ==
  IsCompress(result) =>
    \A k \in DOMAIN Given(result.input.preserve) :
      includes(result.input.full_context, Given(result.input.preserve)[k])
        => includes(result.compressed, Given(result.input.preserve)[k])


IsHandoffQuality(call) == call.op = "handoff_quality"

RequiredFields ==
  {"workspace", "phase", "next_steps", "active_files", "completed_operations"}

\* the required field f is present in the request
Present(input, f) ==
  CASE f = "workspace" -> IsSome(input.workspace) /\ Get(input.workspace) # ""
    [] f = "phase" -> IsSome(input.phase) /\ Get(input.phase) # ""
    [] f = "next_steps" -> IsSome(input.next_steps) /\ Get(input.next_steps) # <<>>
    [] f = "active_files" -> IsSome(input.active_files) /\ Get(input.active_files) # <<>>
    [] f = "completed_operations" ->
         IsSome(input.completed_operations) /\ Get(input.completed_operations) # <<>>

\* the requests that differ from input in the field f only
VariantsIn(input, f) ==
  {other \in HandoffInputs :
     \A g \in DOMAIN input : g # f => other[g] = input[g]}

\* C25: the score is within 0..100, a required field is in missing exactly
\* when it is absent, and making an absent required field present, the
\* other fields as they are, does not lower the score.
C25_ScoreMonotoneInRequiredFields ==
  IsHandoffQuality(result) =>
    /\ result.completeness_score \in 0..100
    /\ \A f \in RequiredFields :
         /\ (\E k \in DOMAIN result.missing_elements : result.missing_elements[k] = f)
              <=> ~Present(result.input, f)
         /\ ~Present(result.input, f) =>
              \A other \in VariantsIn(result.input, f) :
                Present(other, f) =>
                  validateHandoff(other).completeness_score >= result.completeness_score

\* next_steps is the one absent required field, and the steps that could be
\* given include a short first step and more than ten steps, which cost points
C25_Witness ==
  /\ IsHandoffQuality(result)
  /\ result.missing_elements = <<"next_steps">>
  /\ result.input.next_steps = Some(<<>>)
  /\ result.completeness_score = 80
  /\ \E other \in VariantsIn(result.input, "next_steps") :
       /\ Len(validateHandoff(other).warnings) = 2
       /\ validateHandoff(other).completeness_score = 90


\* the call is a load that opened a snapshot of w (or opened nothing), or a
\* checkpoint of w
LoadOrCheckpointOn(call, w) ==
  \/ call.op = "load" /\ (call.success => call.workspace = w)
  \/ call.op = "checkpoint" /\ call.input.workspace = w

\* C26: after loads and checkpoints on one workspace w only, from a store
\* without unclean records, a successful full save of w leaves no record of
\* w with ended_cleanly=false: recoverCrash(w) has nothing to detect.
C26_SaveLeavesNoUncleanRecord ==
  \A w \in Workspaces :
    (/\ IsSave(result) /\ result.input.workspace = w
     /\ \A i \in 1..(Len(history) - 1) : LoadOrCheckpointOn(history[i], w))
    => /\ Unclean(w) = {}
       /\ getUncleanSessions(sessions, Some(w)) = {}


\* the call being answered is a save or a checkpoint made while a session
\* is tracked: the save closes the tracked record, the checkpoint counts on
\* it and, when it escalates, closes it
ActsOnTrackedSession ==
  /\ Called
  /\ IsSave(result') \/ IsCheckpoint(result')
  /\ currentSessionId # NoId

\* C27: the session record that a save or a checkpoint of workspace w
\* closes or counts on is a record of w.
C27_TrackedSessionIsOfWorkspace ==
  [][ActsOnTrackedSession =>
       \A i \in DOMAIN sessions :
         sessions[i].id = currentSessionId =>
           sessions[i].workspace = result'.input.workspace]_vars


\* the call being answered is a checkpoint that escalated
Escalated == Called /\ IsCheckpoint(result') /\ result'.auto_escalated

\* C28: an escalation with a session tracked gives the tracked record an
\* end time and the handoff path of the escalation, and adds a record for
\* the checkpoint's workspace, not cleanly ended, with no operation and no
\* end time, which is tracked from then on; the other records stay as they
\* are.  An escalation with no session tracked leaves the records alone.
C28_EscalationReopensSession ==
  [][Escalated =>
       IF currentSessionId # NoId
       THEN /\ Len(sessions') = Len(sessions) + 1
            /\ \A i \in DOMAIN sessions :
                 IF sessions[i].id = currentSessionId
                 THEN /\ sessions'[i].end_time = Some(result'.timestamp)
                      /\ sessions'[i].handoff_path = result'.handoff_path
                      /\ sessions'[i].id = sessions[i].id
                      /\ sessions'[i].workspace = sessions[i].workspace
                 ELSE sessions'[i] = sessions[i]
            /\ LET new == sessions'[Len(sessions')]
               IN  /\ new.workspace = result'.input.workspace
                   /\ ~new.ended_cleanly
                   /\ new.operations_count = 0
                   /\ new.end_time = None
                   /\ new.id = currentSessionId'
                   /\ \A i \in DOMAIN sessions : sessions[i].id # new.id
       ELSE /\ sessions' = sessions
            /\ currentSessionId' = NoId]_vars

\* after an escalation: the record tracked before is closed at the time of
\* the escalation, and the tracked record is a new one of the workspace
C28_Witness ==
  /\ IsCheckpoint(result) /\ result.auto_escalated
  /\ \E i, j \in DOMAIN sessions :
       /\ i < j
       /\ sessions[i].end_time = Some(result.timestamp)
       /\ sessions[i].handoff_path = result.handoff_path
       /\ sessions[j].id = currentSessionId
       /\ sessions[j].workspace = result.workspace
       /\ sessions[j].start_time = result.timestamp
       /\ sessions[j].end_time = None /\ ~sessions[j].ended_cleanly

\* after an escalation with no session tracked: no record was made
C28_WitnessUntracked ==
  /\ IsCheckpoint(result) /\ result.auto_escalated
  /\ currentSessionId = NoId
  /\ \A i \in DOMAIN sessions : sessions[i].workspace # result.workspace


\* the checkpoint calls on w since its accumulator was created that carried
\* the field
Carrying(w, field) == {i \in SinceCreated(w) : IsSome(history[i].input[field])}

\* the last of a non-empty set of calls
LastOf(calls) == CHOOSE i \in calls : \A j \in calls : j <= i

\* C29: phase, active_files and next_steps of an accumulator are those of
\* the last checkpoint that carried the field, however many checkpoints
\* that omit it came after, and the initial value when none carried it.
C29_FieldsFromLastCarryingCall ==
  \A w \in DOMAIN accumulators :
    /\ accumulators[w].phase =
         (IF Carrying(w, "phase") = {} THEN "unknown"
          ELSE Get(history[LastOf(Carrying(w, "phase"))].input.phase))
    /\ accumulators[w].active_files =
         (IF Carrying(w, "active_files") = {} THEN <<>>
          ELSE Get(history[LastOf(Carrying(w, "active_files"))].input.active_files))
    /\ accumulators[w].next_steps =
         (IF Carrying(w, "next_steps") = {} THEN <<>>
          ELSE Get(history[LastOf(Carrying(w, "next_steps"))].input.next_steps))

\* the decisions call i carried
DecisionsOf(i) ==
  IF IsSome(history[i].input.decisions) THEN Get(history[i].input.decisions)
  ELSE <<>>

\* the calls on w since its accumulator was created that carried decision d
CallsPassing(w, d) ==
  {i \in SinceCreated(w) : \E k \in DOMAIN DecisionsOf(i) : DecisionsOf(i)[k] = d}

\* the first call that carried d, and d's first place in that call's list
FirstCall(w, d) == CHOOSE i \in CallsPassing(w, d) : \A j \in CallsPassing(w, d) : i <= j
FirstPlace(w, d) ==
  LET list == DecisionsOf(FirstCall(w, d))
      at == {k \in DOMAIN list : list[k] = d}
  IN  CHOOSE k \in at : \A m \in at : k <= m

\* d was first passed before e
PassedBefore(w, d, e) ==
  \/ FirstCall(w, d) < FirstCall(w, e)
  \/ FirstCall(w, d) = FirstCall(w, e) /\ FirstPlace(w, d) < FirstPlace(w, e)

\* C30: decisions_made has no string twice, has exactly the decisions passed
\* to the checkpoints of the workspace since the accumulator was created,
\* and lists them in the order in which they were first passed.
C30_DecisionsDeduplicatedInFirstOrder ==
  \A w \in DOMAIN accumulators :
    LET made == accumulators[w].decisions_made
    IN  /\ \A i, j \in DOMAIN made : made[i] = made[j] => i = j
        /\ \A c \in SinceCreated(w) : \A k \in DOMAIN DecisionsOf(c) :
             \E i \in DOMAIN made : made[i] = DecisionsOf(c)[k]
        /\ \A i \in DOMAIN made : CallsPassing(w, made[i]) # {}
        /\ \A i, j \in DOMAIN made : i < j => PassedBefore(w, made[i], made[j])

\* three checkpoints of one workspace: d1, then d1 and d2, then d2, d3, d1
\* and d3 again
C30_Witness ==
  /\ Len(history) = 3 /\ SinceCreated("a") = {1, 2, 3}
  /\ DecisionsOf(1) = <<"d1">> /\ DecisionsOf(2) = <<"d1", "d2">>
  /\ DecisionsOf(3) = <<"d2", "d3", "d1", "d3">>
  /\ accumulators["a"].decisions_made = <<"d1", "d2", "d3">>

\* the k-th of the checkpoint calls on w since its accumulator was created
NthCall(w, k) ==
  CHOOSE i \in SinceCreated(w) :
    Cardinality({j \in SinceCreated(w) : j <= i}) = k

\* C31: completed_operations of an accumulator has one entry for each
\* checkpoint call on the workspace since the accumulator was created, in
\* call order, each with the call's operation label and result success;
\* calls that escalated are counted like the others.
C31_OneOperationPerCheckpoint ==
  \A w \in DOMAIN accumulators :
    LET ops == accumulators[w].completed_operations
    IN  /\ Len(ops) = Cardinality(SinceCreated(w))
        /\ \A k \in DOMAIN ops :
             ops[k] = [description |-> history[NthCall(w, k)].input.operation,
                       result |-> "success"]

\* three checkpoints of one workspace with different labels, the second of
\* which escalated
C31_Witness ==
  /\ Len(history) = 3 /\ SinceCreated("a") = {1, 2, 3}
  /\ history[2].auto_escalated
  /\ history[1].input.operation # history[2].input.operation
  /\ history[2].input.operation # history[3].input.operation
  /\ Len(accumulators["a"].completed_operations) = 3

\* the descriptions and results of a list of operations, without timestamps
Unstamped(ops) ==
  [k \in DOMAIN ops |-> [description |-> ops[k].description, result |-> ops[k].result]]

\* the snapshot this escalating step wrote
EscalatedSnapshot == files'[Get(result'.handoff_path).filename]

\* the checkpoint row this step wrote
RowWritten ==
  checkpoints'[CHOOSE i \in DOMAIN checkpoints' :
                 checkpoints'[i].id = result'.checkpoint_id]

\* this step is a checkpoint on a workspace whose accumulator has escalated
AfterEscalation ==
  /\ Called /\ IsCheckpoint(result')
  /\ result'.workspace \in DOMAIN accumulators
  /\ IsSome(accumulators[result'.workspace].last_escalation)

\* C32: an escalating checkpoint leaves in the accumulator exactly what it
\* wrote to the escalated snapshot, except the counter (0), the time of the
\* escalation, and the auto-escalation warning, which only the snapshot has;
\* nothing held before the call is lost.  The row of a checkpoint written
\* after an escalation has every operation, decision and warning the
\* accumulator held, which includes those from before the escalation.
C32_EscalationKeepsAccumulated ==
  [][/\ Escalated =>
          LET w == result'.workspace
              new == accumulators'[w]
              snap == EscalatedSnapshot
          IN  /\ new.checkpoint_count = 0
              /\ new.last_escalation = Some(result'.timestamp)
              /\ new.phase = snap.phase
              /\ new.active_files = snap.active_files
              /\ new.next_steps = snap.next_steps
              /\ new.decisions_made = snap.decisions_made
              /\ new.completed_operations = Unstamped(snap.completed_operations)
              /\ snap.warnings = Append(new.warnings, AutoEscalatedWarning)
              /\ \A k \in DOMAIN new.warnings : new.warnings[k] # AutoEscalatedWarning
              /\ w \in DOMAIN accumulators =>
                   /\ IsPrefix(accumulators[w].completed_operations,
                               new.completed_operations)
                   /\ IsPrefix(accumulators[w].decisions_made, new.decisions_made)
                   /\ IsPrefix(accumulators[w].warnings, new.warnings)
     /\ AfterEscalation =>
          LET old == accumulators[result'.workspace]
              row == RowWritten.state
          IN  /\ IsPrefix(old.completed_operations, Unstamped(row.completed_operations))
              /\ Len(row.completed_operations) = Len(old.completed_operations) + 1
              /\ IsPrefix(old.decisions_made, row.decisions_made)
              /\ IsPrefix(old.warnings, row.warnings)
              /\ \A k \in DOMAIN row.warnings : row.warnings[k] # AutoEscalatedWarning]_vars

\* a checkpoint after an escalation of the same workspace: the accumulator
\* holds warnings, decisions and three operations, the escalated snapshot
\* is on disk with the auto-escalation warning
C32_Witness ==
  /\ Len(history) = 3 /\ SinceCreated("a") = {1, 2, 3}
  /\ history[2].auto_escalated /\ ~history[3].auto_escalated
  /\ accumulators["a"].warnings # <<>> /\ accumulators["a"].decisions_made # <<>>
  /\ Len(accumulators["a"].completed_operations) = 3
  /\ \E f \in DOMAIN files :
       /\ files[f].workspace = "a"
       /\ files[f].warnings = <<"w1", AutoEscalatedWarning>>
       /\ Len(files[f].completed_operations) = 2

\* C33: with a threshold of at least 1 and every write succeeding, the
\* checkpoint counter of every workspace is between 0 and threshold - 1
\* whenever no call is running: the call that brings it to the threshold
\* escalates and leaves it at 0.
C33_CounterBelowThreshold ==
  /\ config.auto_escalation_threshold >= 1
  /\ \A w \in DOMAIN accumulators :
       /\ accumulators[w].checkpoint_count >= 0
       /\ accumulators[w].checkpoint_count <= config.auto_escalation_threshold - 1

\* the counter at threshold - 1 after an escalation, and at 0 just after one
C33_Witness ==
  /\ config.auto_escalation_threshold = 2
  /\ Len(history) = 3 /\ history[2].auto_escalated
  /\ IsCheckpoint(result) /\ accumulators[result.workspace].checkpoint_count = 1
  /\ IsSome(accumulators[result.workspace].last_escalation)

C33_WitnessReset ==
  /\ config.auto_escalation_threshold = 2
  /\ IsCheckpoint(result) /\ result.auto_escalated
  /\ accumulators[result.workspace].checkpoint_count = 0

\* call j emptied or reset the counter of w: an escalating checkpoint or a
\* save of w
ResetsCounter(j, w) ==
  \/ IsCheckpoint(history[j]) /\ history[j].workspace = w /\ history[j].auto_escalated
  \/ IsSave(history[j]) /\ history[j].input.workspace = w

\* the checkpoint calls on w that stored their row, since the last
\* escalation or clear of w
PersistedSince(w) ==
  {i \in DOMAIN history :
     /\ IsCheckpoint(history[i]) /\ history[i].workspace = w
     /\ \A j \in DOMAIN history : j >= i => ~ResetsCounter(j, w)}

\* this step is a checkpoint call that failed
CheckpointFailed == Called /\ result'.op = "checkpoint" /\ result'.error

\* C34: a checkpoint call that fails because its row cannot be stored
\* leaves every accumulator as it was, and so after every call the counter
\* of a workspace is the number of checkpoints stored for it since its last
\* escalation or clear.
C34_FailedCheckpointLeavesAccumulator ==
  [][/\ CheckpointFailed => accumulators' = accumulators
     /\ Called =>
          \A w \in DOMAIN accumulators' :
            accumulators'[w].checkpoint_count = Cardinality(PersistedSince(w)')]_vars

\* C35: after every operation that writes a checkpoint, a full save's
\* session_end checkpoint included, the checkpoints stored for a workspace
\* are at most the keep-count.
C35_StoredCheckpointsBounded ==
  \A w \in Workspaces : Cardinality(rowsOf(checkpoints, w)) <= KeepCount

\* a load that names a workspace and no session id
IsLoadOfWorkspace(call) ==
  call.op = "load" /\ Truthy(call.input.workspace) /\ call.input.session_id = None

\* C36: a load that names workspace w, when a snapshot of w is stored,
\* returns a snapshot whose workspace is w, and the one written last among
\* those of w, whatever snapshots of other workspaces are stored.
C36_LoadsLatestOfWorkspace ==
  LET w == Get(result.input.workspace)
  IN  (IsLoadOfWorkspace(result) /\ \E f \in DOMAIN files : files[f].workspace = w)
      => /\ result.success
         /\ result.workspace = w
         /\ \A f \in DOMAIN files :
              files[f].workspace = w =>
                files[f].timestamp <= files[result.target_file].timestamp

\* the line without its status markers and the white space around them
Unmarked(line) ==
  trim(replaceTag(replaceTag(replaceTag(line, Chars("[OK]")), Chars("[DONE]")),
                  Chars("[WIP]")))

\* the lines of the text that are kept whatever the budget, in the order of
\* the text: those of the five higher buckets as they are, the status lines
\* without their marker
KeptLines(text, preserve) ==
  LET kept == SelectSeq(splitLines(text), LAMBDA l : isKept(l, preserve) \/ isStatus(l))
  IN  [i \in DOMAIN kept |->
         IF isKept(kept[i], preserve) THEN kept[i] ELSE Unmarked(kept[i])]

\* C37: the output of a compression over budget begins with the lines of the
\* five higher buckets, unmodified, and the status lines ([OK], [DONE],
\* [WIP]) that are in none of them, without their marker, all in the order
\* of the text.
C37_StatusLinesUnmarked ==
  (IsCompress(result) /\ Len(result.input.full_context) > 4 * result.target) =>
    IsPrefix(KeptLines(result.input.full_context, Given(result.input.preserve)),
             splitLines(result.compressed))

====
